---- MODULE Spec2Model ----
(***************************************************************************)
(* The race orchestrator of parallel_agents: race_with_judge_and_stream    *)
(* (src/parallel_agents/src/race/race.py), the coroutine the CLI and the   *)
(* tests run.  The orchestrator is one coroutine on an asyncio event loop: *)
(* an action is the code between two suspension points.  Speculative       *)
(* full-answer streams are asyncio tasks; they advance on their own        *)
(* between the orchestrator's steps.                                       *)
(*                                                                         *)
(* stream_response is modelled by its outcome for the caller: it returns,  *)
(* or it raises once its retries are exhausted, or the enclosing           *)
(* asyncio.wait_for raises TimeoutError.                                   *)
(*                                                                         *)
(* The second part is the contextual router, LinUCBRouter                  *)
(* (src/parallel_agents/src/routing/routing_linucb.py): SpecRouter is the  *)
(* router with a state file and calls that succeed (select, update,        *)
(* bulk_update), SpecPersist the router with its state file and key/value  *)
(* store (writes that fail, decay, a new router built after a restart).    *)
(*                                                                         *)
(* The third part is the units the orchestrator calls, each under a        *)
(* specification of its own: SpecStream (one call of stream_response over  *)
(* a stream of events), SpecJudge (one attempt of judge_previews and the   *)
(* ordering of its verdict), SpecMetrics (the preview latency store) and   *)
(* SpecCache (the preview cache).                                          *)
(***************************************************************************)
EXTENDS Integers, Sequences, FiniteSets, TLC

\* ---------------------------------------------------------------- bounds
MaxN == 3          \* candidates (agent_models) per run
MaxScore == 2      \* the judge's overall scores range over 0..MaxScore
MaxEnvTopK == 3    \* values of the SPECULATIVE_TOP_K environment variable

\* ------------------------------------------------------------- constants
Arms == {"a", "b"}               \* model names a run may be given
None == 0 - 1                    \* Python's None where an index is expected
JUDGE_ATTEMPTS == 3              \* stop_after_attempt(3) of judge_previews
STREAM_ATTEMPTS == 5             \* stop_after_attempt(5) of stream_response
MIN_TOP_K == 2                   \* max(2, int(SPECULATIVE_TOP_K))

VARIABLES
    pc,                  \* where the orchestrator coroutine is
    num_agents,          \* len(agent_models) = len(selected_models)
    reward_weights,      \* the argument reward_weights, in tenths
    entry_io,            \* what _select_models_for_strategy has read
    strategy,            \* "baseline" | "bandit"
    selected_models,     \* candidate index -> model name
    i_preview,           \* loop index of the preview loop
    previewState,        \* candidate -> created|running|done|failed|timeout
    previews_results,    \* list of (tokens, text, latency) in append order
    judgeCalls,          \* calls of judge_previews made by the orchestrator
    judgeAttempts,       \* attempts of the current judge_previews call
    ordered_indices,     \* compute_candidate_order(verdict, num_agents)
    do_speculative,      \* the speculative full stage was chosen
    topk,                \* candidates given a speculative task
    task,                \* candidate -> state of its latest full-answer stream
    fullStarts,          \* candidate -> number of _run_full_for_index calls
    first_completed,     \* <<>>, or the one speculative task that completed first
    first,               \* next(iter(done)), or None
    pending,             \* the pending set still to cancel and await
    awaiting,            \* the pending task being awaited, or None
    seqPos,              \* position in ordered_indices of the sequential loop
    final_idx,           \* winner, or None
    full_response_from,  \* candidate whose stream gave full_response_text
    failed_full_indices, \* failures recorded by the sequential loop
    updates              \* arm -> number of router.update calls of this run

cfgVars == <<num_agents, strategy, selected_models, reward_weights, entry_io>>
previewVars == <<i_preview, previewState, previews_results>>
judgeVars == <<judgeCalls, judgeAttempts, ordered_indices, do_speculative>>
specVars == <<topk, first_completed, first, pending, awaiting>>
fullVars == <<task, fullStarts, seqPos, final_idx, full_response_from,
              failed_full_indices>>
raceVars == <<pc, cfgVars, previewVars, judgeVars, specVars, fullVars, updates>>

\* The LinUCBRouter object (routing/routing_linucb.py) and its two stores.
VARIABLES
    _arms,               \* self._arms: arm name -> [A_inv, b]
    state_path,          \* a state file is configured (self.state_path)
    redis_enabled,       \* REDIS_URL is set (router_state_enabled())
    state_file,          \* <<payload>> held by the state file, <<>> if none
    kv,                  \* <<payload>> under the key router_state:d<d>, or <<>>
    call,                \* the last call made on the router, with its arguments
    ret,                 \* what that call returned or raised
    updates_only,        \* _arms was built from a fresh router by update calls only
    n_calls              \* calls made on the router so far

routerVars == <<_arms, state_path, redis_enabled, state_file, kv, call, ret,
                updates_only, n_calls>>

\* One call of stream_response (streaming.py).
VARIABLES
    stream_events,       \* the events stream.stream_events() will deliver
    stop_after_tokens,   \* the argument; None for a full stream
    capture_text,        \* the argument
    events_read,         \* events taken from the stream so far
    token_count,         \* the local of stream_response
    buf,                 \* the chunks captured so far
    stream_pc,           \* "idle" | "streaming" | "returned" | "raised"
    stream_ret,          \* <<>>, or <<the returned pair>>
    stream_attempt       \* the attempt of the @retry wrapper that is running

streamVars == <<stream_events, stop_after_tokens, capture_text, events_read,
                token_count, buf, stream_pc, stream_ret,
               stream_attempt>>

\* One attempt of judge_previews and the ordering of its verdict (judge.py).
VARIABLES
    judge_output,        \* <<>> for text that is no JSON object, else <<data>>
    total_candidates,    \* N, the number of previews judged
    verdict,             \* <<>>, or <<the JudgeVerdict returned>>
    judge_raised,        \* what the attempt raised, or "none"
    order,               \* compute_candidate_order(verdict, N), or <<>>
    judge_pc             \* "idle" | "called" | "returned" | "raised" | "ordered"

judgeUnitVars == <<judge_output, total_candidates, verdict, judge_raised, order,
                   judge_pc>>

\* The preview latency store (runtime/metrics.py).
VARIABLES
    metrics_file,        \* <<>> if the file does not exist, else <<store>>
    recorded,            \* arm -> positive latencies passed to record_preview_latency
    written,             \* arm -> those of them whose write succeeded
    n_records            \* calls of record_preview_latency so far

metricsVars == <<metrics_file, recorded, written, n_records>>

\* The preview cache (services/cache_redis.py).
VARIABLES
    redis_url,           \* REDIS_URL is set
    cache,               \* key -> <<>> or <<the string stored under it>>
    cache_call,          \* the last call made on the cache
    cache_ret,           \* what it returned
    n_cache_calls        \* calls made so far

cacheVars == <<redis_url, cache, cache_call, cache_ret, n_cache_calls>>

\* normalize_url and the citation lists (citations.py).
VARIABLES
    url,                 \* the string given to normalize_url
    normalized,          \* <<>>, or <<normalize_url(url)>>
    renormalized,        \* <<>>, or <<normalize_url(normalize_url(url))>>
    citation_lists,      \* the lists given to merge_and_dedupe
    deduped              \* <<>>, or <<the list it returned>>

citVars == <<url, normalized, renormalized, citation_lists, deduped>>

\* One call of QualityLatencyCostPolicy.compute_rewards (runtime/reward.py)
\* as race_with_judge_and_stream makes it.
VARIABLES
    reward_args,         \* the run's values the call is made from
    rewards              \* <<>>, or <<what the call computed>>

rewardVars == <<reward_args, rewards>>

\* _execute_subtasks_parallel of the hierarchical pipeline (roma_graph.py).
VARIABLES
    subtasks,            \* the input list: position -> set of dependency ids
    remaining_tasks,     \* positions still to run, in list order
    completed_task_ids,  \* ids of the subtasks that have run
    roma_results,        \* the results list: positions, in append order
    returned_results,    \* <<>>, or <<the list the function returned>>
    executions,          \* position -> calls of _execute_single_subtask
    roma_pc              \* "idle" | "loop" | "returned"

romaVars == <<subtasks, remaining_tasks, completed_task_ids, roma_results,
              returned_results, executions, roma_pc>>

libVars == <<streamVars, judgeUnitVars, metricsVars, cacheVars, citVars,
             rewardVars, romaVars>>
vars == <<raceVars, routerVars, libVars>>

\* Cache keys of the model.
Keys == {"k1", "k2"}

StreamIdle ==
    /\ stream_events = <<>>
    /\ stop_after_tokens = 0 - 1
    /\ capture_text = FALSE
    /\ events_read = 0
    /\ token_count = 0
    /\ buf = <<>>
    /\ stream_pc = "idle"
    /\ stream_ret = <<>>
    /\ stream_attempt = 0

JudgeIdle ==
    /\ judge_output = <<>>
    /\ total_candidates = 0
    /\ verdict = <<>>
    /\ judge_raised = "none"
    /\ order = <<>>
    /\ judge_pc = "idle"

MetricsIdle ==
    /\ metrics_file = <<>>
    /\ recorded = [a \in Arms |-> <<>>]
    /\ written = [a \in Arms |-> <<>>]
    /\ n_records = 0

CacheIdle ==
    /\ redis_url = FALSE
    /\ cache = [key \in Keys |-> <<>>]
    /\ cache_call = [op |-> "none"]
    /\ cache_ret = <<>>
    /\ n_cache_calls = 0

CitIdle ==
    /\ url = <<>>
    /\ normalized = <<>>
    /\ renormalized = <<>>
    /\ citation_lists = <<>>
    /\ deduped = <<>>

RewardIdle ==
    /\ reward_args = <<>>
    /\ rewards = <<>>

RomaIdle ==
    /\ subtasks = <<>>
    /\ remaining_tasks = <<>>
    /\ completed_task_ids = {}
    /\ roma_results = <<>>
    /\ returned_results = <<>>
    /\ executions = <<>>
    /\ roma_pc = "idle"

\* the units added to the four above
MoreIdle == CitIdle /\ RewardIdle /\ RomaIdle

\* None of the library units is exercised.
LibIdle == StreamIdle /\ JudgeIdle /\ MetricsIdle /\ CacheIdle /\ MoreIdle

\* No router exists while the orchestrator's control flow is explored.
RouterIdle ==
    /\ _arms = <<>>
    /\ state_path = FALSE
    /\ redis_enabled = FALSE
    /\ state_file = <<>>
    /\ kv = <<>>
    /\ call = [op |-> "none"]
    /\ ret = [raised |-> "none"]
    /\ updates_only = TRUE
    /\ n_calls = 0

Candidates == 0 .. (num_agents - 1)

Range(s) == {s[k] : k \in 1 .. Len(s)}

Min(a, b) == IF a <= b THEN a ELSE b
Max(a, b) == IF a >= b THEN a ELSE b

\* ------------------------------------------------------------ the judge
\* sorted(range(n), key=overall-or-0, reverse=True): a stable sort, so
\* equal scores keep ascending index order.
Rank(scores, n, i) ==
    Cardinality({j \in 0 .. (n - 1) :
        \/ scores[j] > scores[i]
        \/ (scores[j] = scores[i] /\ j < i)})

compute_candidate_order(scores, n) ==
    [p \in 1 .. n |-> CHOOSE i \in 0 .. (n - 1) : Rank(scores, n, i) = p - 1]

\* ------------------------------------------------------------ previews
\* One (tokens, text, latency) triple.  The values are kept by their origin:
\* src names the candidate whose preview (cached or streamed) the triple holds.
PreviewEntry(i) == [src |-> i, text |-> "preview"]

\* agent_models as given (baseline) or as ranked by router.select (bandit):
\* a list that repeats no model while there are arms left, and a list that
\* names the same model for every candidate.
ModelLists(n) ==
    {[i \in 0 .. (n - 1) |-> IF i % 2 = 0 THEN "a" ELSE "b"],
     [i \in 0 .. (n - 1) |-> "a"]}

\* Faulty variant: the newest result is put in front.
PrependPreview(results, entry) == <<entry>> \o results

AppendPreview(results, entry) == Append(results, entry)

\* reward_weights a caller may pass, in tenths: (0.8, 0.2) and (1.5, 0.2)
RewardWeights == {<<8, 2>>, <<15, 2>>}

\* Faulty variant: no bound on the weights.
AnyWeights(w) == TRUE

\* QualityLatencyCostWeights: each weight is Field(ge=0.0, le=1.0)
QualityLatencyCostWeights(w) == \A j \in 1 .. Len(w) : w[j] >= 0 /\ w[j] <= 10

Init ==
    /\ pc = "entry"
    /\ num_agents \in 0 .. MaxN
    /\ reward_weights \in RewardWeights
    /\ entry_io = {}
    /\ strategy \in {"baseline", "bandit"}
    /\ selected_models \in ModelLists(num_agents)
    /\ i_preview = 0
    /\ previewState = [i \in 0 .. (num_agents - 1) |-> "created"]
    /\ previews_results = <<>>
    /\ judgeCalls = 0
    /\ judgeAttempts = 0
    /\ ordered_indices = <<>>
    /\ do_speculative = FALSE
    /\ topk = <<>>
    /\ task = [i \in 0 .. (num_agents - 1) |-> "none"]
    /\ fullStarts = [i \in 0 .. (num_agents - 1) |-> 0]
    /\ first_completed = <<>>
    /\ first = None
    /\ pending = {}
    /\ awaiting = None
    /\ seqPos = 1
    /\ final_idx = None
    /\ full_response_from = None
    /\ failed_full_indices = <<>>
    /\ updates = [a \in Arms |-> 0]
    /\ RouterIdle
    /\ LibIdle

\* preview_cache_get(key) is not None: the cached pair is appended (with
\* latency None) and no stream is opened.
\* Faulty variant: the empty list is let through.
never_empty(n) == FALSE

\* not agent_models
not_agent_models(n) == n = 0

\* if not agent_models: raise ValueError(...)
EntryReject ==
    /\ pc = "entry"
    /\ not_agent_models(num_agents)
    /\ pc' = "raised_config"
    /\ UNCHANGED <<cfgVars, previewVars, judgeVars, specVars, fullVars, updates>>
    /\ UNCHANGED <<routerVars, libVars>>

\* _select_models_for_strategy: under BANDIT the router is constructed
\* (which loads its state) and the latency p95 of every model is read;
\* the selection it returns is selected_models.
\* Faulty variant: router.select writes the router's state.
select_saves(strategy_value) ==
    IF strategy_value = "bandit"
    THEN {"router_load", "metrics_read", "router_save"} ELSE {}

\* What _select_models_for_strategy touches: under BANDIT the router's
\* constructor loads the state and get_preview_latency_p95 reads the
\* metrics; router.select writes nothing.
select_io(strategy_value) ==
    IF strategy_value = "bandit" THEN {"router_load", "metrics_read"} ELSE {}

Enter ==
    /\ pc = "entry"
    /\ ~not_agent_models(num_agents)
    /\ entry_io' = select_io(strategy)
    /\ pc' = "preview"
    /\ UNCHANGED <<num_agents, strategy, selected_models, reward_weights>>
    /\ UNCHANGED <<previewVars, judgeVars, specVars, fullVars, updates>>
    /\ UNCHANGED <<routerVars, libVars>>

PreviewCacheHit ==
    /\ pc = "preview"
    /\ i_preview < num_agents
    /\ previewState' = [previewState EXCEPT ![i_preview] = "done"]
    /\ previews_results' = AppendPreview(previews_results, PreviewEntry(i_preview))
    /\ i_preview' = i_preview + 1
    /\ UNCHANGED <<pc, cfgVars, judgeVars, specVars, fullVars, updates>>
    /\ UNCHANGED <<routerVars, libVars>>

\* Cache miss: await _timed_preview(...) suspends the orchestrator.
PreviewStart ==
    /\ pc = "preview"
    /\ i_preview < num_agents
    /\ previewState' = [previewState EXCEPT ![i_preview] = "running"]
    /\ pc' = "preview_await"
    /\ UNCHANGED <<i_preview, previews_results, cfgVars, judgeVars, specVars,
                   fullVars, updates>>
    /\ UNCHANGED <<routerVars, libVars>>

\* The stream returned (tokens, text): cache it, append, next candidate.
PreviewDone ==
    /\ pc = "preview_await"
    /\ previewState' = [previewState EXCEPT ![i_preview] = "done"]
    /\ previews_results' = AppendPreview(previews_results, PreviewEntry(i_preview))
    /\ i_preview' = i_preview + 1
    /\ pc' = "preview"
    /\ UNCHANGED <<cfgVars, judgeVars, specVars, fullVars, updates>>
    /\ UNCHANGED <<routerVars, libVars>>

\* stream_response raised after its retries: nothing around the await in
\* the preview loop catches it, so it leaves race_with_judge_and_stream.
PreviewError ==
    /\ pc = "preview_await"
    /\ previewState' = [previewState EXCEPT ![i_preview] = "failed"]
    /\ pc' = "raised_preview"
    /\ UNCHANGED <<i_preview, previews_results, cfgVars, judgeVars, specVars,
                   fullVars, updates>>
    /\ UNCHANGED <<routerVars, libVars>>

\* asyncio.wait_for raised TimeoutError (only when preview_timeout_s > 0);
\* it propagates like any other exception of the preview.
PreviewTimeout ==
    /\ pc = "preview_await"
    /\ \E preview_timeout_s \in {0, 1} : preview_timeout_s > 0
    /\ previewState' = [previewState EXCEPT ![i_preview] = "timeout"]
    /\ pc' = "raised_preview"
    /\ UNCHANGED <<i_preview, previews_results, cfgVars, judgeVars, specVars,
                   fullVars, updates>>
    /\ UNCHANGED <<routerVars, libVars>>

\* ----------------------------------------------------------- the judge
\* The preview loop is over: outcomes are built from previews_results and
\* judge_previews is awaited.
JudgeStart ==
    /\ pc = "preview"
    /\ i_preview = num_agents
    /\ judgeCalls' = judgeCalls + 1
    /\ judgeAttempts' = 1
    /\ pc' = "judge"
    /\ UNCHANGED <<ordered_indices, do_speculative, cfgVars, previewVars,
                   specVars, fullVars, updates>>
    /\ UNCHANGED <<routerVars, libVars>>

\* Faulty variant: the retrying never stops.
stop_never(attempt_number) == FALSE

\* stop=stop_after_attempt(3)
stop_after_attempt(attempt_number) == attempt_number >= JUDGE_ATTEMPTS

\* The judge's output did not parse or validate: tenacity retries.
JudgeRetry ==
    /\ pc = "judge"
    /\ ~stop_after_attempt(judgeAttempts)
    /\ judgeAttempts' = judgeAttempts + 1
    /\ UNCHANGED <<pc, judgeCalls, ordered_indices, do_speculative, cfgVars,
                   previewVars, specVars, fullVars, updates>>
    /\ UNCHANGED <<routerVars, libVars>>

\* The last attempt failed too: reraise=True, the run fails.
JudgeFail ==
    /\ pc = "judge"
    /\ stop_after_attempt(judgeAttempts)
    /\ pc' = "raised_judge"
    /\ UNCHANGED <<judgeVars, cfgVars, previewVars, specVars, fullVars, updates>>
    /\ UNCHANGED <<routerVars, libVars>>

\* A verdict came back: order the candidates and choose the full stage.
\* long_query is len(query) >= speculative_min_query_length.
JudgeVerdict ==
    /\ pc = "judge"
    /\ \E scores \in [0 .. (num_agents - 1) -> 0 .. MaxScore], long_query \in BOOLEAN :
        /\ ordered_indices' = compute_candidate_order(scores, num_agents)
        /\ do_speculative' = (long_query /\ num_agents >= 2)
        /\ pc' = IF long_query /\ num_agents >= 2 THEN "spec" ELSE "seq"
    /\ judgeAttempts' = 0
    /\ UNCHANGED <<judgeCalls, cfgVars, previewVars, specVars, fullVars, updates>>
    /\ UNCHANGED <<routerVars, libVars>>

\* ------------------------------------------------------ the full stage
\* speculative_top_k = min(max(2, int(SPECULATIVE_TOP_K)), len(ordered_indices))
speculative_top_k(env, n) == Min(Max(MIN_TOP_K, env), n)

\* asyncio.wait(tasks, FIRST_COMPLETED) returns (done, pending): every task
\* finished by the time the orchestrator resumes is in done.
DoneTasks(tasks, t) == {i \in tasks : t[i] \in {"ok", "failed"}}

\* Faulty variant: the pending tasks are neither cancelled nor awaited.
PendingForgotten(tasks, done) == {}

PendingAfterWait(tasks, done) == tasks \ done

\* Faulty variant: the failed index is not recorded.
FailureNotRecorded(failed, idx) == failed

\* except Exception: failed_full_indices.append(idx)
RecordFailure(failed, idx) == Append(failed, idx)

\* Faulty variant: the missing winner goes unnoticed.
NeverAllFailed(winner) == FALSE

\* if final_idx is None: raise RuntimeError(...)
AllFullFailed(winner) == winner = None

\* tasks = [create_task(_run_full_for_index(i)) for i in topk]; the tasks
\* start running when the orchestrator suspends in asyncio.wait.
SpecStart ==
    /\ pc = "spec"
    /\ \E env \in 1 .. MaxEnvTopK :
        topk' = SubSeq(ordered_indices, 1, speculative_top_k(env, Len(ordered_indices)))
    /\ task' = [i \in Candidates |-> IF i \in Range(topk') THEN "running" ELSE task[i]]
    /\ fullStarts' = [i \in Candidates |->
                        IF i \in Range(topk') THEN fullStarts[i] + 1 ELSE fullStarts[i]]
    /\ pc' = "spec_wait"
    /\ UNCHANGED <<first_completed, first, pending, awaiting, seqPos, final_idx,
                   full_response_from, failed_full_indices, cfgVars, previewVars,
                   judgeVars, updates>>
    /\ UNCHANGED <<routerVars, libVars>>

\* History of the event loop: which speculative task finished first, and how.
NoteCompletion(fc, i, ok) == IF fc = <<>> THEN <<[idx |-> i, ok |-> ok]>> ELSE fc

\* A speculative task's stream returned while the orchestrator is suspended.
FullStreamOk(i) ==
    /\ pc \in {"spec_wait", "spec_await"}
    /\ task[i] = "running"
    /\ task' = [task EXCEPT ![i] = "ok"]
    /\ first_completed' = NoteCompletion(first_completed, i, TRUE)
    /\ UNCHANGED <<pc, topk, first, pending, awaiting, fullStarts, seqPos,
                   final_idx, full_response_from, failed_full_indices, cfgVars,
                   previewVars, judgeVars, updates>>
    /\ UNCHANGED <<routerVars, libVars>>

\* A speculative task's stream raised (retries exhausted, or full_timeout_s).
FullStreamFail(i) ==
    /\ pc \in {"spec_wait", "spec_await"}
    /\ task[i] = "running"
    /\ task' = [task EXCEPT ![i] = "failed"]
    /\ first_completed' = NoteCompletion(first_completed, i, FALSE)
    /\ UNCHANGED <<pc, topk, first, pending, awaiting, fullStarts, seqPos,
                   final_idx, full_response_from, failed_full_indices, cfgVars,
                   previewVars, judgeVars, updates>>
    /\ UNCHANGED <<routerVars, libVars>>

\* asyncio.wait returned: first = next(iter(done)) is any member of the
\* done set; awaiting it gives its result or its exception (logged).
SpecWaitReturn ==
    /\ pc = "spec_wait"
    /\ LET done == DoneTasks(Range(topk), task) IN
        /\ done # {}
        /\ \E f \in done :
            /\ first' = f
            /\ final_idx' = IF task[f] = "ok" THEN f ELSE final_idx
            /\ full_response_from' = IF task[f] = "ok" THEN f ELSE full_response_from
        /\ pending' = PendingAfterWait(Range(topk), done)
    /\ pc' = "spec_cancel"
    /\ UNCHANGED <<topk, first_completed, awaiting, task, fullStarts, seqPos,
                   failed_full_indices, cfgVars, previewVars, judgeVars, updates>>
    /\ UNCHANGED <<routerVars, libVars>>

\* for p in pending: p.cancel(); await p  -- p is still running: the
\* cancellation is requested and the orchestrator suspends on p.
SpecCancelRunning ==
    /\ pc = "spec_cancel"
    /\ \E p \in pending :
        /\ task[p] = "running"
        /\ task' = [task EXCEPT ![p] = "cancelling"]
        /\ awaiting' = p
    /\ pc' = "spec_await"
    /\ UNCHANGED <<topk, first_completed, first, pending, fullStarts, seqPos, final_idx,
                   full_response_from, failed_full_indices, cfgVars, previewVars,
                   judgeVars, updates>>
    /\ UNCHANGED <<routerVars, libVars>>

\* p finished with a result while an earlier pending task was awaited:
\* cancel() does nothing and await p returns the result, which is dropped.
SpecCancelFinishedOk ==
    /\ pc = "spec_cancel"
    /\ \E p \in pending :
        /\ task[p] = "ok"
        /\ pending' = pending \ {p}
    /\ UNCHANGED <<pc, topk, first_completed, first, awaiting, fullVars, cfgVars,
                   previewVars, judgeVars, updates>>
    /\ UNCHANGED <<routerVars, libVars>>

\* p raised while an earlier pending task was awaited: await p re-raises
\* its exception, which suppress(CancelledError) does not swallow.
SpecCancelFinishedFailed ==
    /\ pc = "spec_cancel"
    /\ \E p \in pending : task[p] = "failed"
    /\ pc' = "raised_stream_error"
    /\ UNCHANGED <<specVars, fullVars, cfgVars, previewVars, judgeVars, updates>>
    /\ UNCHANGED <<routerVars, libVars>>

\* CancelledError is thrown into the task at its suspension point.
TaskCancelled(i) ==
    /\ task[i] = "cancelling"
    /\ task' = [task EXCEPT ![i] = "cancelled"]
    /\ UNCHANGED <<pc, specVars, fullStarts, seqPos, final_idx, full_response_from,
                   failed_full_indices, cfgVars, previewVars, judgeVars, updates>>
    /\ UNCHANGED <<routerVars, libVars>>

\* await p raised CancelledError, which is suppressed: next pending task.
SpecAwaitReturn ==
    /\ pc = "spec_await"
    /\ task[awaiting] = "cancelled"
    /\ pending' = pending \ {awaiting}
    /\ awaiting' = None
    /\ pc' = "spec_cancel"
    /\ UNCHANGED <<topk, first_completed, first, fullVars, cfgVars, previewVars,
                   judgeVars, updates>>
    /\ UNCHANGED <<routerVars, libVars>>

\* Every pending task was awaited.  Without a winner the orchestrator
\* falls back to "for idx in ordered_indices".
SpecCancelDone ==
    /\ pc = "spec_cancel"
    /\ pending = {}
    /\ pc' = IF final_idx = None THEN "seq" ELSE "post_full"
    /\ UNCHANGED <<specVars, fullVars, cfgVars, previewVars, judgeVars, updates>>
    /\ UNCHANGED <<routerVars, libVars>>

\* for idx in ordered_indices: await _run_full_for_index(idx)
SeqStart ==
    /\ pc = "seq"
    /\ seqPos <= Len(ordered_indices)
    /\ LET idx == ordered_indices[seqPos] IN
        /\ task' = [task EXCEPT ![idx] = "running"]
        /\ fullStarts' = [fullStarts EXCEPT ![idx] = @ + 1]
    /\ pc' = "seq_await"
    /\ UNCHANGED <<seqPos, final_idx, full_response_from, failed_full_indices,
                   specVars, cfgVars, previewVars, judgeVars, updates>>
    /\ UNCHANGED <<routerVars, libVars>>

\* The stream returned: this candidate is the winner; break.
SeqOk ==
    /\ pc = "seq_await"
    /\ LET idx == ordered_indices[seqPos] IN
        /\ task' = [task EXCEPT ![idx] = "ok"]
        /\ final_idx' = idx
        /\ full_response_from' = idx
    /\ pc' = "post_full"
    /\ UNCHANGED <<fullStarts, seqPos, failed_full_indices, specVars, cfgVars,
                   previewVars, judgeVars, updates>>
    /\ UNCHANGED <<routerVars, libVars>>

\* The stream raised (an error after the retries, or TimeoutError when
\* full_timeout_s > 0): record the index; continue.
SeqFail ==
    /\ pc = "seq_await"
    /\ LET idx == ordered_indices[seqPos] IN
        /\ task' = [task EXCEPT ![idx] = "failed"]
        /\ failed_full_indices' = RecordFailure(failed_full_indices, idx)
    /\ seqPos' = seqPos + 1
    /\ pc' = "seq"
    /\ UNCHANGED <<fullStarts, final_idx, full_response_from, specVars, cfgVars,
                   previewVars, judgeVars, updates>>
    /\ UNCHANGED <<routerVars, libVars>>

\* The loop ran out of candidates.
SeqExhausted ==
    /\ pc = "seq"
    /\ seqPos > Len(ordered_indices)
    /\ pc' = "post_full"
    /\ UNCHANGED <<specVars, fullVars, cfgVars, previewVars, judgeVars, updates>>
    /\ UNCHANGED <<routerVars, libVars>>

\* ------------------------------------------------- reward and return
\* compute_rewards returns a dict keyed by model name: one entry per
\* distinct model, in order of first occurrence.
RECURSIVE DictKeys(_)
DictKeys(models) ==
    IF models = <<>> THEN <<>>
    ELSE LET rest == DictKeys(SubSeq(models, 1, Len(models) - 1))
             last == models[Len(models)]
         IN IF last \in Range(rest) THEN rest ELSE Append(rest, last)

ModelList(models, n) == [k \in 1 .. n |-> models[k - 1]]

\* Faulty variant: one reward entry per candidate instead of per model.
RewardsPerCandidate(models, n) == ModelList(models, n)

compute_rewards(models, n) == DictKeys(ModelList(models, n))

\* for arm, r in rewards.items(): self.update(x, arm, r)
bulk_update(upd, arms) ==
    [a \in DOMAIN upd |-> upd[a] + Cardinality({k \in 1 .. Len(arms) : arms[k] = a})]

AllFailedRaise ==
    /\ pc = "post_full"
    /\ AllFullFailed(final_idx)
    /\ pc' = "raised_all_failed"
    /\ UNCHANGED <<specVars, fullVars, cfgVars, previewVars, judgeVars, updates>>
    /\ UNCHANGED <<routerVars, libVars>>

\* strategy == BANDIT: rewards are computed and the router is updated,
\* then debug is built and the function returns.
RewardAndReturn ==
    /\ pc = "post_full"
    /\ ~AllFullFailed(final_idx)
    /\ strategy = "bandit"
    /\ QualityLatencyCostWeights(reward_weights)
    /\ updates' = bulk_update(updates, compute_rewards(selected_models, num_agents))
    /\ pc' = "returned"
    /\ UNCHANGED <<specVars, fullVars, cfgVars, previewVars, judgeVars>>
    /\ UNCHANGED <<routerVars, libVars>>

\* strategy == BANDIT and QualityLatencyCostWeights(...) refuses a weight:
\* pydantic's ValidationError leaves the function.
WeightsRejected ==
    /\ pc = "post_full"
    /\ ~AllFullFailed(final_idx)
    /\ strategy = "bandit"
    /\ ~QualityLatencyCostWeights(reward_weights)
    /\ pc' = "raised_weights"
    /\ UNCHANGED <<specVars, fullVars, cfgVars, previewVars, judgeVars, updates>>
    /\ UNCHANGED <<routerVars, libVars>>

Return ==
    /\ pc = "post_full"
    /\ ~AllFullFailed(final_idx)
    /\ strategy # "bandit"
    /\ pc' = "returned"
    /\ UNCHANGED <<specVars, fullVars, cfgVars, previewVars, judgeVars, updates>>
    /\ UNCHANGED <<routerVars, libVars>>

\* The debug dict of the returned triple.
debug ==
    [previews |-> [k \in 1 .. Len(previews_results) |-> previews_results[k].text],
     preview_src |-> [k \in 1 .. Len(previews_results) |-> previews_results[k].src],
     winner_index |-> final_idx,
     full_response |-> full_response_from,
     fallback_failed_indices |-> failed_full_indices]

Next ==
    \/ EntryReject
    \/ Enter
    \/ PreviewCacheHit
    \/ PreviewStart
    \/ PreviewDone
    \/ PreviewError
    \/ PreviewTimeout
    \/ JudgeStart
    \/ JudgeRetry
    \/ JudgeFail
    \/ JudgeVerdict
    \/ SpecStart
    \/ \E i \in Candidates : FullStreamOk(i)
    \/ \E i \in Candidates : FullStreamFail(i)
    \/ SpecWaitReturn
    \/ SpecCancelRunning
    \/ SpecCancelFinishedOk
    \/ SpecCancelFinishedFailed
    \/ \E i \in Candidates : TaskCancelled(i)
    \/ SpecAwaitReturn
    \/ SpecCancelDone
    \/ SeqStart
    \/ SeqOk
    \/ SeqFail
    \/ SeqExhausted
    \/ AllFailedRaise
    \/ RewardAndReturn
    \/ WeightsRejected
    \/ Return

Spec == Init /\ [][Next]_vars

\* ------------------------------------------------------------ properties
Terminal == {"returned", "raised_preview", "raised_judge", "raised_all_failed",
             "raised_stream_error", "raised_config", "raised_weights"}

PreviewFinished == {"done", "failed", "timeout"}

InFlight(i) == task[i] \in {"running", "cancelling"}

\* Position of candidate i in the judge order.
PosInOrder(i) == CHOOSE k \in 1 .. Len(ordered_indices) : ordered_indices[k] = i

\* C1: in the non-speculative full stage the candidates are attempted one at
\* a time, in judge order, each at most once; on return the winner is the
\* first candidate of the order whose stream succeeded and
\* fallback_failed_indices is exactly the part of the order before it.
C1_SequentialFirstSuccessWins ==
    (~do_speculative /\ ordered_indices # <<>>) =>
        /\ Cardinality({i \in Candidates : InFlight(i)}) <= 1
        /\ \A k \in 1 .. Len(ordered_indices) :
            fullStarts[ordered_indices[k]] > 0 =>
                /\ fullStarts[ordered_indices[k]] = 1
                /\ \A j \in 1 .. (k - 1) : task[ordered_indices[j]] = "failed"
        /\ pc = "returned" =>
            /\ final_idx \in Candidates
            /\ task[final_idx] = "ok"
            /\ debug.fallback_failed_indices =
                   SubSeq(ordered_indices, 1, PosInOrder(final_idx) - 1)

C1_Witness ==
    /\ pc = "returned"
    /\ ~do_speculative
    /\ Len(failed_full_indices) >= 2
    /\ final_idx = ordered_indices[3]

\* C2: a preview that times out or whose stream fails does not fail the
\* run: the run is never ended by that preview's exception.
C2_PreviewFailureNonFatal ==
    \A i \in Candidates :
        previewState[i] \in {"failed", "timeout"} => pc # "raised_preview"

\* C3: when a speculative run returns, every speculative stream that was
\* pending has been cancelled and awaited: no full-answer stream is in
\* flight, nothing is left to cancel, and the full response is the winner's.
C3_SpeculativeLosersCancelled ==
    (pc = "returned" /\ do_speculative) =>
        /\ \A i \in Candidates : ~InFlight(i)
        /\ \A i \in Range(topk) : task[i] \in {"ok", "failed", "cancelled"}
        /\ pending = {}
        /\ debug.full_response = final_idx
        /\ task[final_idx] = "ok"

C3_Witness ==
    /\ pc = "returned"
    /\ do_speculative
    /\ final_idx = first
    /\ fullStarts[first] = 1
    /\ \E p \in Range(topk) : task[p] = "cancelled"

\* C4: in the speculative full stage, if the first full stream to complete
\* succeeded, that candidate is the winner and fallback_failed_indices is
\* empty on return.
C4_FirstCompletedSuccessWins ==
    (pc = "returned" /\ do_speculative /\ first_completed # <<>>) =>
        (first_completed[1].ok =>
            /\ final_idx = first_completed[1].idx
            /\ debug.fallback_failed_indices = <<>>)

\* C5: if the first speculative stream to complete failed, the fallback
\* tries the other candidates in judge order and does not run the candidate
\* whose speculative attempt failed a second time.
C5_FailedSpeculativeNotRerun ==
    (do_speculative /\ first_completed # <<>>) =>
        (~first_completed[1].ok => fullStarts[first_completed[1].idx] <= 1)

\* C6: the run returns only with a winner whose full stream succeeded, and
\* it raises "all candidates failed" only when every candidate of the order
\* has been attempted and has failed.
C6_AllFailedRaisesAfterAllAttempted ==
    /\ pc = "returned" =>
        /\ final_idx \in Candidates
        /\ task[final_idx] = "ok"
    /\ pc = "raised_all_failed" =>
        /\ final_idx = None
        /\ Range(ordered_indices) = Candidates
        /\ \A i \in Candidates : fullStarts[i] >= 1 /\ task[i] = "failed"

C6_Witness ==
    /\ pc = "raised_all_failed"
    /\ num_agents >= 2
    /\ \A i \in Candidates : task[i] = "failed"

\* C7: in every run the judge is called exactly once, after every preview
\* has finished, and no full-answer stream starts before the verdict.
C7_JudgeExactlyOnce ==
    /\ judgeCalls <= 1
    /\ pc \in Terminal => judgeCalls = 1
    /\ judgeCalls >= 1 => \A i \in Candidates : previewState[i] \in PreviewFinished
    /\ (\E i \in Candidates : fullStarts[i] > 0) => ordered_indices # <<>>

\* C8: the previews run concurrently: while the orchestrator waits for a
\* preview stream, every candidate's preview has already been started.
C8_PreviewsStartedWithoutWaiting ==
    pc = "preview_await" => \A j \in Candidates : previewState[j] # "created"

\* What the code does instead: at most one preview stream is ever in flight.
PreviewsOneAtATime ==
    Cardinality({i \in Candidates : previewState[i] = "running"}) <= 1

\* C9: entry i of the preview results (and so of debug.previews, tokens
\* and latencies, and of the judge's payload) belongs to candidate i.
C9_PreviewResultsInIndexOrder ==
    /\ \A k \in 1 .. Len(previews_results) : previews_results[k].src = k - 1
    /\ judgeCalls >= 1 => Len(previews_results) = num_agents
    /\ pc = "returned" =>
        /\ Len(debug.previews) = num_agents
        /\ \A k \in 1 .. num_agents : debug.preview_src[k] = k - 1

C9_Witness ==
    /\ pc = "returned"
    /\ num_agents >= 3
    /\ Len(debug.previews) = num_agents

\* C10: with strategy=bandit the router update is applied at most once per
\* arm in a run, and only once the full stage has ended with a winner.
C10_BanditUpdateOncePerArm ==
    /\ \A a \in Arms : updates[a] <= 1
    /\ (\E a \in Arms : updates[a] > 0) =>
        /\ pc = "returned"
        /\ strategy = "bandit"
        /\ final_idx \in Candidates
        /\ task[final_idx] = "ok"

C10_Witness ==
    /\ pc = "returned"
    /\ strategy = "bandit"
    /\ num_agents >= 2
    /\ selected_models[0] = selected_models[1]
    /\ updates[selected_models[0]] = 1

\* ======================================================================
\* The contextual router: LinUCBRouter (routing/routing_linucb.py).
\* float64 values are modelled by exact rationals [n, m] in lowest terms
\* with m > 0, so that scores which are equal in the source are equal here.
\* ======================================================================
d == 2                           \* LinUCBRouter(d=2, ...)
MaxCalls == 2                    \* calls made on one router
MaxK == 2                        \* select is called with k in 0 .. MaxK

Abs(a) == IF a < 0 THEN 0 - a ELSE a

RECURSIVE GCD(_, _)
GCD(a, b) == IF b = 0 THEN a ELSE GCD(b, a % b)

Rat(n, m) ==
    LET g == GCD(Abs(n), Abs(m))
        s == IF m < 0 THEN 0 - 1 ELSE 1
    IN  [n |-> s * (n \div g), m |-> s * (m \div g)]

RZero == [n |-> 0, m |-> 1]
ROne == [n |-> 1, m |-> 1]
RNeg(p) == [n |-> 0 - p.n, m |-> p.m]
\* over the least common denominator
RAdd(p, q) ==
    LET g == GCD(p.m, q.m)
    IN  Rat(p.n * (q.m \div g) + q.n * (p.m \div g), (p.m \div g) * q.m)
RSub(p, q) == RAdd(p, RNeg(q))
\* common factors are cancelled before the products are formed
RMul(p, q) ==
    LET g1 == GCD(Abs(p.n), q.m)
        g2 == GCD(Abs(q.n), p.m)
    IN  [n |-> (p.n \div g1) * (q.n \div g2), m |-> (p.m \div g2) * (q.m \div g1)]
RInv(p) == Rat(p.m, p.n)
RDiv(p, q) == RMul(p, RInv(q))
\* sign of p - q, by comparing integer parts and then the reciprocals of
\* the fractional parts, so that no product is formed
RECURSIVE RCmp(_, _)
RCmp(p, q) ==
    LET fp == p.n \div p.m
        fq == q.n \div q.m
        rp == p.n % p.m
        rq == q.n % q.m
    IN  IF fp # fq THEN (IF fp < fq THEN 0 - 1 ELSE 1)
        ELSE IF rp = 0 /\ rq = 0 THEN 0
        ELSE IF rp = 0 THEN 0 - 1
        ELSE IF rq = 0 THEN 1
        ELSE RCmp([n |-> q.m, m |-> rq], [n |-> p.m, m |-> rp])
RLess(p, q) == RCmp(p, q) < 0
RLeq(p, q) == RCmp(p, q) <= 0
RMax(p, q) == IF RLess(p, q) THEN q ELSE p

alpha == ROne                    \* LinUCBRouter(alpha=1.0)
ridge_lambda == Rat(1, 100)      \* LinUCBRouter(ridge_lambda=1e-2)
DENOM_FLOOR == Rat(1, 1000000000)    \* 1e-9

\* ---------------------------------------------------------- numpy arrays
\* A vector is a sequence of rationals, a matrix a sequence of rows.
RECURSIVE DotUpTo(_, _, _)
DotUpTo(u, v, k) ==
    IF k = 0 THEN RZero ELSE RAdd(DotUpTo(u, v, k - 1), RMul(u[k], v[k]))

Dot(u, v) == DotUpTo(u, v, Len(u))

\* The array f[1], ..., f[n] with its entries computed.
Arr(f, n) == SubSeq(f, 1, n)

MatVec(A, x) == Arr([i \in 1 .. Len(A) |-> Dot(A[i], x)], Len(A))
VecAdd(u, v) == Arr([i \in 1 .. Len(u) |-> RAdd(u[i], v[i])], Len(u))
VecSub(u, v) == Arr([i \in 1 .. Len(u) |-> RSub(u[i], v[i])], Len(u))
VecScale(u, c) == Arr([i \in 1 .. Len(u) |-> RMul(u[i], c)], Len(u))
Outer(u, v) == Arr([i \in 1 .. Len(u) |-> VecScale(v, u[i])], Len(u))
MatSub(A, B) == Arr([i \in 1 .. Len(A) |-> VecSub(A[i], B[i])], Len(A))
MatScale(A, c) == Arr([i \in 1 .. Len(A) |-> VecScale(A[i], c)], Len(A))
Zeros(n) == Arr([i \in 1 .. n |-> RZero], n)
Eye(n, c) ==
    Arr([i \in 1 .. n |-> Arr([j \in 1 .. n |-> IF i = j THEN c ELSE RZero], n)], n)

\* A_inv @ x is defined when every row of A_inv has len(x) entries.
MatVecDefined(A, x) == \A i \in 1 .. Len(A) : Len(A[i]) = Len(x)

\* ------------------------------------------------------------ arm states
\* _ArmState(A_inv=(1.0 / lam) * np.eye(d), b=np.zeros(d))
FreshArm ==
    LET lam == RMax(DENOM_FLOOR, ridge_lambda)
    IN  [A_inv |-> Eye(d, RDiv(ROne, lam)), b |-> Zeros(d)]

\* an _ensure without its early return: the arm is initialised again
ensure_overwrite(arms_map, arm) ==
    [a \in DOMAIN arms_map \cup {arm} |->
        IF a = arm THEN FreshArm ELSE arms_map[a]]

_ensure(arms_map, arm) ==
    IF arm \in DOMAIN arms_map THEN arms_map
    ELSE [a \in DOMAIN arms_map \cup {arm} |->
             IF a = arm THEN FreshArm ELSE arms_map[a]]

RECURSIVE EnsureAll(_, _, _)
EnsureAll(arms_map, ordered_arms, k) ==
    IF k = 0 THEN arms_map
    ELSE _ensure(EnsureAll(arms_map, ordered_arms, k - 1), ordered_arms[k])

\* --------------------------------------------------------------- select
\* a score without the exploration bonus
score_mean_only(st, x, bias) ==
    [lin |-> RAdd(Dot(MatVec(st.A_inv, st.b), x), bias), sq |-> RZero]

\* A score is means + ucbs + bias_vec, kept as lin + sqrt(sq) with
\* lin = mean + bias and sq = alpha^2 * max(0, x . A_inv x).
score(st, x, bias) ==
    LET theta == MatVec(st.A_inv, st.b)
        Ainv_x == MatVec(st.A_inv, x)
        vars_ == RMax(RZero, Dot(x, Ainv_x))
    IN  [lin |-> RAdd(Dot(theta, x), bias), sq |-> RMul(RMul(alpha, alpha), vars_)]

\* floor of the square root of an integer v >= 0 (Newton's iteration)
RECURSIVE ISqrtFrom(_, _)
ISqrtFrom(v, r) ==
    LET r2 == (r + (v \div r)) \div 2
    IN  IF r2 >= r THEN r ELSE ISqrtFrom(v, r2)
ISqrt(v) == IF v = 0 THEN 0 ELSE ISqrtFrom(v, v)

\* sqrt(P) lies in [SqrtLo(P), SqrtLo(P) + 1/32] for a rational P >= 0
SqrtLo(P) ==
    LET scaled == (P.n \div P.m) * 1024 + (((P.n % P.m) * 1024) \div P.m)
    IN  Rat(ISqrt(scaled), 32)
SqrtHi(P) == RAdd(SqrtLo(P), Rat(1, 32))

\* sign of c + sqrt(P) - sqrt(Q) for c > 0, P >= 0, Q >= 0, by squaring
SqrtSignPos(c, P, Q) ==
    IF RLeq(Q, P) THEN 1
    ELSE LET R == RSub(RSub(Q, P), RMul(c, c))
         IN  IF R.n < 0 THEN 1
             ELSE LET T == RDiv(R, RMul(Rat(2, 1), c))
                  IN RCmp(P, RMul(T, T))

\* sign of (s.lin + sqrt(s.sq)) - (t.lin + sqrt(t.sq)): decided by the
\* enclosures of the square roots when they are apart, exactly otherwise
ScoreCmp(s, t) ==
    LET c == RSub(s.lin, t.lin)
    IN  IF c.n = 0 THEN RCmp(s.sq, t.sq)
        ELSE IF RLess(RAdd(t.lin, SqrtHi(t.sq)), RAdd(s.lin, SqrtLo(s.sq))) THEN 1
        ELSE IF RLess(RAdd(s.lin, SqrtHi(s.sq)), RAdd(t.lin, SqrtLo(t.sq))) THEN 0 - 1
        ELSE IF c.n > 0 THEN SqrtSignPos(c, s.sq, t.sq)
        ELSE 0 - SqrtSignPos(RNeg(c), t.sq, s.sq)

\* arm_bias.get(a, 0.0)
bias_vec(arm_bias, a) == IF a \in DOMAIN arm_bias THEN arm_bias[a] ELSE RZero

\* scores, indexed like ordered_arms from 0
scores(arms_map, x, ordered_arms, arm_bias) ==
    [i \in 0 .. (Len(ordered_arms) - 1) |->
        score(arms_map[ordered_arms[i + 1]], x, bias_vec(arm_bias, ordered_arms[i + 1]))]

\* a select that ignores k
k_all(k, n) == n

k_eff(k, n) == Max(1, Min(k, n))

\* np.argpartition(-scores, k_eff - 1)[:k_eff]: indices of k_eff largest
\* scores; which of several equal scores at the boundary are taken is not
\* specified by numpy.
argpartition(sc, ke) ==
    {T \in SUBSET (DOMAIN sc) :
        /\ Cardinality(T) = ke
        /\ \A i \in T : \A j \in (DOMAIN sc) \ T : ScoreCmp(sc[i], sc[j]) >= 0}

\* top_indices[np.argsort(scores[top_indices])[::-1]]: descending scores;
\* the order of equal scores is the reverse of what argsort's default
\* (unstable) sort leaves, so every order of equal scores can come out.
argsort_reversed(sc, T) ==
    {o \in [1 .. Cardinality(T) -> T] :
        /\ \A p, q \in DOMAIN o : p # q => o[p] # o[q]
        /\ \A p, q \in DOMAIN o : p < q => ScoreCmp(sc[o[p]], sc[o[q]]) >= 0}

\* the lists of indices select can return once every arm has a state
top_indices(arms_map, x, ordered_arms, k, arm_bias) ==
    LET sc == scores(arms_map, x, ordered_arms, arm_bias)
    IN  UNION {argsort_reversed(sc, T) : T \in argpartition(sc, k_eff(k, Len(ordered_arms)))}

\* [ordered_arms[i] for i in top_indices.tolist()]
ArmsAt(ordered_arms, idx) == [p \in 1 .. Len(idx) |-> ordered_arms[idx[p] + 1]]

\* --------------------------------------------------------------- update
\* an update that subtracts the reward
update_arm_negated(st, x, reward) ==
    LET Ainv_x == MatVec(st.A_inv, x)
        denom == RAdd(ROne, Dot(x, Ainv_x))
    IN  [A_inv |-> MatSub(st.A_inv, MatScale(Outer(Ainv_x, Ainv_x), RInv(denom))),
         b |-> VecSub(st.b, VecScale(x, reward))]

\* Sherman-Morrison step on one arm state.
update_arm(st, x, reward) ==
    LET Ainv_x == MatVec(st.A_inv, x)
        denom0 == RAdd(ROne, Dot(x, Ainv_x))
        denom == IF RLeq(denom0, DENOM_FLOOR) THEN DENOM_FLOOR ELSE denom0
    IN  [A_inv |-> MatSub(st.A_inv, MatScale(Outer(Ainv_x, Ainv_x), RInv(denom))),
         b |-> VecAdd(st.b, VecScale(x, reward))]

\* ---------------------------------------------------------- persistence
STATE_VERSION == 1

NoArms == [a \in {} |-> FreshArm]        \* self._arms = {}
NoStore == <<>>                          \* no file / no value under the key

\* the payload built by _save: arrays become nested lists (tolist)
payload(arms_map) ==
    [version |-> STATE_VERSION,
     d |-> d,
     arms |-> [a \in DOMAIN arms_map |->
                  [A_inv |-> arms_map[a].A_inv, b |-> arms_map[a].b]]]

\* ndarray.size of np.asarray(list)
size_A(A) == IF Len(A) = 0 THEN 0 ELSE Len(A) * Len(A[1])
size_b(b) == Len(b)

\* for arm, st in entries.items(): skip empty arrays, else
\* self._arms[arm] = _ArmState(A_inv=A_inv, b=b)
load_entries(current, entries) ==
    LET kept == {a \in DOMAIN entries :
                    ~(size_A(entries[a].A_inv) = 0 \/ size_b(entries[a].b) = 0)}
    IN  [a \in (DOMAIN current) \cup kept |->
            IF a \in kept THEN [A_inv |-> entries[a].A_inv, b |-> entries[a].b]
            ELSE current[a]]

\* a loader that keeps nothing of what it reads
load_nothing(current, data) == NoArms

\* A dict without the key "arms" is the legacy format {arm: {A_inv, b}}.
_load_from_payload(current, data) ==
    IF "arms" \notin DOMAIN data THEN load_entries(current, data)
    ELSE LET d_loaded == IF "d" \in DOMAIN data THEN data.d ELSE d
         IN  IF d_loaded # d THEN NoArms
             ELSE load_entries(current, data.arms)

\* __init__: the file when a path is given and the file exists, else the
\* key/value store when it is enabled and holds a value.
init_arms(path, file, redis, value) ==
    IF path /\ file # NoStore THEN _load_from_payload(NoArms, file[1])
    ELSE IF redis /\ value # NoStore THEN _load_from_payload(NoArms, value[1])
    ELSE NoArms

\* _save: write_text is not guarded, router_state_save swallows a failing
\* set.  io names what the stores do during this call.
_save(arms_map, file, value, io) ==
    IF state_path /\ io = "file_fails"
    THEN [file |-> file, kv |-> value, raised |-> "OSError"]
    ELSE [file |-> IF state_path THEN <<payload(arms_map)>> ELSE file,
          kv |-> IF redis_enabled /\ io # "kv_fails"
                 THEN <<payload(arms_map)>> ELSE value,
          raised |-> "none"]

\* --------------------------------------------------- the router's methods
\* Each takes and returns [arms, file, kv]; the result also says what
\* was raised.
\* update without the length check of its first statement: the arm is
\* created before numpy refuses the product
update_unchecked(st, x, arm, reward, io) ==
    LET m1 == _ensure(st.arms, arm)
    IN  IF ~MatVecDefined(m1[arm].A_inv, x)
        THEN [arms |-> m1, file |-> st.file, kv |-> st.kv, raised |-> "ValueError"]
        ELSE LET m2 == [m1 EXCEPT ![arm] = update_arm(m1[arm], x, reward)]
                 sv == _save(m2, st.file, st.kv, io)
             IN  [arms |-> m2, file |-> sv.file, kv |-> sv.kv, raised |-> sv.raised]

update(st, x, arm, reward, io) ==
    IF Len(x) # d
    THEN [arms |-> st.arms, file |-> st.file, kv |-> st.kv, raised |-> "ValueError"]
    ELSE LET m1 == _ensure(st.arms, arm)
         IN  IF ~MatVecDefined(m1[arm].A_inv, x)
             THEN [arms |-> m1, file |-> st.file, kv |-> st.kv, raised |-> "ValueError"]
             ELSE LET m2 == [m1 EXCEPT ![arm] = update_arm(m1[arm], x, reward)]
                      sv == _save(m2, st.file, st.kv, io)
                  IN  [arms |-> m2, file |-> sv.file, kv |-> sv.kv, raised |-> sv.raised]

\* a loop that lets the first failing arm end it
reraise(u) == u

\* except Exception: continue
swallow(u) == [arms |-> u.arms, file |-> u.file, kv |-> u.kv, raised |-> "none"]

\* for arm, r in rewards.items(): try: self.update(x, arm, float(r))
RECURSIVE bulk_items(_, _, _, _, _)
bulk_items(st, x, items, ios, k) ==
    IF k = 0
    THEN [arms |-> st.arms, file |-> st.file, kv |-> st.kv, raised |-> "none"]
    ELSE LET prev == bulk_items(st, x, items, ios, k - 1)
         IN  IF prev.raised # "none" THEN prev
             ELSE swallow(update(prev, x, items[k].arm, items[k].r, ios[k]))

bulk_update_all(st, x, items, ios) ==
    IF Len(x) # d
    THEN [arms |-> st.arms, file |-> st.file, kv |-> st.kv, raised |-> "ValueError"]
    ELSE bulk_items(st, x, items, ios, Len(items))

decay(st, factor, io) ==
    IF RLeq(factor, RZero)
    THEN [arms |-> st.arms, file |-> st.file, kv |-> st.kv, raised |-> "none"]
    ELSE LET m2 == [a \in DOMAIN st.arms |->
                       [A_inv |-> MatScale(st.arms[a].A_inv, RInv(factor)),
                        b |-> VecScale(st.arms[a].b, factor)]]
             sv == _save(m2, st.file, st.kv, io)
         IN  [arms |-> m2, file |-> sv.file, kv |-> sv.kv, raised |-> sv.raised]

\* ------------------------------------------------- inputs of the router
\* x = [1.0, 0.5] of the tests, the degenerate zero vector, and a vector
\* of the wrong length.
x_test == Arr([i \in 1 .. d |-> IF i = 1 THEN ROne ELSE Rat(1, 2)], d)
Features == {x_test, Zeros(d), Zeros(d + 1)}
Rewards == {RZero, ROne}
ArmLists == {<<"a">>, <<"a", "b">>, <<"b", "a">>, <<"a", "a">>}
NoBias == [a \in {} |-> RZero]                   \* arm_bias=None
ArmBiases == {NoBias, [a \in {"a"} |-> RNeg(ROne)]}
RewardDicts == {<<[arm |-> "a", r |-> ROne]>>,
                <<[arm |-> "a", r |-> ROne], [arm |-> "b", r |-> RZero]>>}
DecayFactors == {RZero, Rat(1, 2)}

\* what the stores can do during one _save
IoOutcomes ==
    {"ok"} \cup (IF state_path THEN {"file_fails"} ELSE {})
           \cup (IF redis_enabled THEN {"kv_fails"} ELSE {})

\* State left behind by earlier processes: a legacy file {arm: {A_inv, b}}
\* written for dimension n (with one entry holding empty arrays), or a
\* file in the current format written for dimension n.
LegacyPayload(n) ==
    [a \in {"a", "b"} |->
        IF a = "a" THEN [A_inv |-> Eye(n, ROne), b |-> [i \in 1 .. n |-> ROne]]
        ELSE [A_inv |-> <<>>, b |-> <<>>]]
CurrentPayload(n) ==
    [version |-> STATE_VERSION, d |-> n,
     arms |-> [a \in {"a"} |-> [A_inv |-> Eye(n, ROne), b |-> [i \in 1 .. n |-> ROne]]]]
InitialFiles ==
    {NoStore} \cup {<<LegacyPayload(n)>> : n \in (d - 1) .. d}
              \cup {<<CurrentPayload(n)>> : n \in d .. (d + 1)}
InitialValues == {NoStore, <<CurrentPayload(d)>>}

\* np.asarray(A_inv) is d x d and np.asarray(b) has d entries
ShapeOK(st) ==
    /\ Len(st.A_inv) = d
    /\ \A i \in 1 .. Len(st.A_inv) : Len(st.A_inv[i]) = d
    /\ Len(st.b) = d

\* The orchestrator is not running while the router is explored.
RaceIdle ==
    /\ pc = "idle"
    /\ num_agents = 0
    /\ reward_weights = <<8, 2>>
    /\ entry_io = {}
    /\ strategy = "bandit"
    /\ selected_models = <<>>
    /\ i_preview = 0
    /\ previewState = <<>>
    /\ previews_results = <<>>
    /\ judgeCalls = 0
    /\ judgeAttempts = 0
    /\ ordered_indices = <<>>
    /\ do_speculative = FALSE
    /\ topk = <<>>
    /\ task = <<>>
    /\ fullStarts = <<>>
    /\ first_completed = <<>>
    /\ first = None
    /\ pending = {}
    /\ awaiting = None
    /\ seqPos = 1
    /\ final_idx = None
    /\ full_response_from = None
    /\ failed_full_indices = <<>>
    /\ updates = [a \in Arms |-> 0]

\* LinUCBRouter(d, alpha, ridge_lambda, state_path) has been constructed
\* with the path of a file that does not exist yet and no key/value
\* store is configured: nothing is loaded.
RouterInit ==
    /\ RaceIdle
    /\ LibIdle
    /\ state_path = TRUE
    /\ redis_enabled = FALSE
    /\ state_file = NoStore
    /\ kv = NoStore
    /\ _arms = init_arms(state_path, state_file, redis_enabled, kv)
    /\ call = [op |-> "init"]
    /\ ret = [raised |-> "none"]
    /\ updates_only = (DOMAIN _arms = {})
    /\ n_calls = 0

\* LinUCBRouter(d, alpha, ridge_lambda, state_path) has been constructed
\* with a state file, a key/value store or both, and has loaded what it
\* found there.
PersistInit ==
    /\ RaceIdle
    /\ LibIdle
    /\ state_path \in BOOLEAN
    /\ redis_enabled \in BOOLEAN
    /\ state_path \/ redis_enabled
    /\ state_file \in (IF state_path /\ ~redis_enabled THEN InitialFiles ELSE {NoStore})
    /\ kv \in (IF redis_enabled THEN InitialValues ELSE {NoStore})
    /\ _arms = init_arms(state_path, state_file, redis_enabled, kv)
    /\ call = [op |-> "init"]
    /\ ret = [raised |-> "none"]
    /\ updates_only = (DOMAIN _arms = {})
    /\ n_calls = 0

RouterState == [arms |-> _arms, file |-> state_file, kv |-> kv]

Select(x, ordered_arms, k, arm_bias) ==
    /\ n_calls < MaxCalls
    /\ n_calls' = n_calls + 1
    /\ call' = [op |-> "select", x |-> x, arms |-> ordered_arms, k |-> k,
                arm_bias |-> arm_bias]
    /\ IF Len(x) # d
       THEN /\ ret' = [raised |-> "ValueError"]
            /\ UNCHANGED _arms
       ELSE LET m1 == EnsureAll(_arms, ordered_arms, Len(ordered_arms))
            IN  /\ _arms' = m1
                /\ IF \E p \in 1 .. Len(ordered_arms) : ~ShapeOK(m1[ordered_arms[p]])
                   THEN ret' = [raised |-> "ValueError"]
                   ELSE \E idx \in top_indices(m1, x, ordered_arms, k, arm_bias) :
                            ret' = [raised |-> "none", idx |-> idx,
                                    value |-> ArmsAt(ordered_arms, idx)]
    /\ UNCHANGED <<state_path, redis_enabled, state_file, kv, updates_only>>
    /\ UNCHANGED <<raceVars, libVars>>

Update(x, arm, reward, io) ==
    /\ n_calls < MaxCalls
    /\ n_calls' = n_calls + 1
    /\ call' = [op |-> "update", x |-> x, arm |-> arm, reward |-> reward, io |-> io]
    /\ LET u == update(RouterState, x, arm, reward, io)
       IN  /\ _arms' = u.arms
           /\ state_file' = u.file
           /\ kv' = u.kv
           /\ ret' = [raised |-> u.raised]
    /\ UNCHANGED <<state_path, redis_enabled, updates_only>>
    /\ UNCHANGED <<raceVars, libVars>>

BulkUpdate(x, items, ios) ==
    /\ n_calls < MaxCalls
    /\ n_calls' = n_calls + 1
    /\ call' = [op |-> "bulk_update", x |-> x, rewards |-> items, ios |-> ios]
    /\ LET u == bulk_update_all(RouterState, x, items, ios)
       IN  /\ _arms' = u.arms
           /\ state_file' = u.file
           /\ kv' = u.kv
           /\ ret' = [raised |-> u.raised]
    /\ UNCHANGED <<state_path, redis_enabled, updates_only>>
    /\ UNCHANGED <<raceVars, libVars>>

Decay(factor, io) ==
    /\ n_calls < MaxCalls
    /\ n_calls' = n_calls + 1
    /\ call' = [op |-> "decay", factor |-> factor, io |-> io]
    /\ LET u == decay(RouterState, factor, io)
       IN  /\ _arms' = u.arms
           /\ state_file' = u.file
           /\ kv' = u.kv
           /\ ret' = [raised |-> u.raised]
    /\ updates_only' = (updates_only /\ RLeq(factor, RZero))
    /\ UNCHANGED <<state_path, redis_enabled>>
    /\ UNCHANGED <<raceVars, libVars>>

\* The process ends and a new LinUCBRouter is built with the same
\* arguments.
Restart ==
    /\ n_calls < MaxCalls
    /\ n_calls' = n_calls + 1
    /\ call' = [op |-> "init"]
    /\ _arms' = init_arms(state_path, state_file, redis_enabled, kv)
    /\ ret' = [raised |-> "none"]
    /\ updates_only' = (DOMAIN _arms' = {})
    /\ UNCHANGED <<state_path, redis_enabled, state_file, kv>>
    /\ UNCHANGED <<raceVars, libVars>>

\* A call with a vector of the wrong length raises before it reads its
\* other arguments: one choice of them stands for all.
RouterNext ==
    \/ \E x \in Features, ordered_arms \in ArmLists, k \in 0 .. MaxK,
          arm_bias \in ArmBiases :
          /\ Len(x) # d => (ordered_arms = <<"a">> /\ k = 0 /\ arm_bias = NoBias)
          /\ Select(x, ordered_arms, k, arm_bias)
    \/ \E x \in Features, arm \in Arms, reward \in Rewards :
          /\ Len(x) # d => (arm = "a" /\ reward = RZero)
          /\ Update(x, arm, reward, "ok")
    \/ \E x \in {x_test, Zeros(d + 1)}, items \in RewardDicts :
          /\ Len(x) # d => Len(items) = 1
          /\ BulkUpdate(x, items, [p \in 1 .. Len(items) |-> "ok"])

SpecRouter == RouterInit /\ [][RouterNext]_vars

\* The router with its stores: calls at x = [1.0, 0.5], writes that fail,
\* decay, and the process being restarted.
PersistNext ==
    \/ \E k \in 1 .. MaxK : Select(x_test, <<"a", "b">>, k, NoBias)
    \/ \E arm \in Arms, io \in IoOutcomes : Update(x_test, arm, ROne, io)
    \/ \E items \in RewardDicts :
          \E ios \in [1 .. Len(items) -> IoOutcomes] : BulkUpdate(x_test, items, ios)
    \/ \E factor \in DecayFactors, io \in IoOutcomes : Decay(factor, io)
    \/ Restart

SpecPersist == PersistInit /\ [][PersistNext]_vars

\* ======================================================================
\* Properties of the router
\* ======================================================================
SelectStep == call'.op = "select" /\ n_calls' = n_calls + 1
UpdateStep == call'.op = "update" /\ n_calls' = n_calls + 1
Selected == call.op = "select" /\ ret.raised = "none"
Distinct(s) == \A p, q \in DOMAIN s : p # q => s[p] # s[q]

\* x^T . A_inv_a . b_a: the mean component of arm's score at x, for the
\* state the arm has once _ensure has run
mean(arms_map, x, arm) ==
    LET st == _ensure(arms_map, arm)[arm]
    IN  Dot(MatVec(st.A_inv, st.b), x)

\* C11 (as stated): select is read-only on the router state: the set of
\* arms held and every arm's A_inv and b are the same after select as
\* before it.
C11_SelectReadOnly == [][SelectStep => _arms' = _arms]_vars

\* C11 (amended): select leaves A_inv and b of every arm the router
\* already holds as they were and writes nothing to the stores; the only
\* change it makes is to add the initial state A_inv = (1/lambda) I, b = 0
\* for arms of its argument that the router did not hold.
C11_SelectOnlyAddsFreshArms ==
    [][SelectStep =>
          /\ \A a \in DOMAIN _arms : a \in DOMAIN _arms' /\ _arms'[a] = _arms[a]
          /\ \A a \in (DOMAIN _arms') \ (DOMAIN _arms) :
                _arms'[a] = FreshArm /\ a \in Range(call'.arms)
          /\ state_file' = state_file
          /\ kv' = kv]_vars

\* select has run on a router that held an updated arm and lacked another
C11_Witness ==
    /\ Selected
    /\ \E a \in DOMAIN _arms : _arms[a] # FreshArm
    /\ \E a \in DOMAIN _arms : _arms[a] = FreshArm

\* C12 (as stated): for any non-empty list arms and any k, select returns
\* exactly min(k, |arms|) elements, pairwise distinct, all members of arms.
C12_SelectReturnsMinKDistinct ==
    Selected =>
        /\ Len(ret.value) = Min(call.k, Len(call.arms))
        /\ Distinct(ret.value)
        /\ Range(ret.value) \subseteq Range(call.arms)

\* C12 (amended): for k >= 1 and a list arms of pairwise distinct names,
\* select returns exactly min(k, |arms|) elements, pairwise distinct, all
\* members of arms.
C12_SelectReturnsKDistinctArms ==
    (Selected /\ call.k >= 1 /\ Distinct(call.arms)) =>
        /\ Len(ret.value) = Min(call.k, Len(call.arms))
        /\ Distinct(ret.value)
        /\ Range(ret.value) \subseteq Range(call.arms)

\* select has returned fewer arms than it was given
C12_Witness ==
    /\ Selected
    /\ call.k >= 1
    /\ Distinct(call.arms)
    /\ call.k < Len(call.arms)
    /\ Len(ret.value) = call.k

\* C13: of two arms with the same score, the one given earlier in arms
\* comes first in the list select returns.
C13_TiesInInputOrder ==
    Selected =>
        LET sc == scores(_arms, call.x, call.arms, call.arm_bias)
        IN  \A p, q \in DOMAIN ret.idx :
                (p < q /\ ScoreCmp(sc[ret.idx[p]], sc[ret.idx[q]]) = 0)
                    => ret.idx[p] < ret.idx[q]

\* The router of the scenario: fresh, then update(x, "a", 1.0), with "b"
\* given its initial state by select.
C14_State ==
    [a \in {"a", "b"} |->
        IF a = "a" THEN update_arm(FreshArm, x_test, ROne) ELSE FreshArm]
C14_Scenario ==
    /\ Selected
    /\ call.x = x_test
    /\ call.arms = <<"a", "b">>
    /\ call.k = 2
    /\ call.arm_bias = NoBias
    /\ _arms = C14_State

\* C14 (as stated): d = 2, alpha = 1.0, ridge_lambda = 0.01, x = [1.0, 0.5]:
\* after update(x, "a", 1.0), select(x, ["a", "b"], 2) returns "a" before "b".
C14_RewardedArmFirst == C14_Scenario => ret.value = <<"a", "b">>

\* C14 (amended): in the same scenario select returns "b" before "a": the
\* untouched arm's confidence bonus sqrt(125) exceeds the rewarded arm's
\* mean plus bonus, 125/126 + sqrt(125/126).
C14_UntouchedArmFirst == C14_Scenario => ret.value = <<"b", "a">>

C14_Witness == C14_Scenario

\* C15 (as stated): on a state reached by updates with rewards in [0, 1],
\* update(x, a, r) with r >= 0 does not decrease the mean component
\* x^T A_inv_a b_a of arm a at the same x.
C15_MeanNonDecreasing ==
    [][(UpdateStep /\ ret'.raised = "none" /\ updates_only
            /\ RLeq(RZero, call'.reward)) =>
          RLeq(mean(_arms, call'.x, call'.arm), mean(_arms', call'.x, call'.arm))]_vars

\* C15 (amended): update(x, a, r) moves the mean component of arm a at x
\* towards r: it does not decrease when r is at least the mean before
\* the update, and it does not increase when r is at most that mean.
C15_MeanMovesTowardReward ==
    [][(UpdateStep /\ ret'.raised = "none" /\ updates_only) =>
          LET before == mean(_arms, call'.x, call'.arm)
              after == mean(_arms', call'.x, call'.arm)
          IN  /\ RLeq(before, call'.reward) => RLeq(before, after)
              /\ RLeq(call'.reward, before) => RLeq(after, before)]_vars

\* a second rewarded update has raised the mean above that of one update
C15_Witness ==
    /\ call.op = "update"
    /\ ret.raised = "none"
    /\ call.reward = ROne
    /\ RLess(Rat(125, 126), mean(_arms, call.x, call.arm))

BulkStep == call'.op = "bulk_update" /\ n_calls' = n_calls + 1

\* C16: bulk_update(x, rewards) with x of dimension d does not raise, and
\* every arm of rewards whose own update can be computed is updated
\* exactly once, whatever happens to the updates of the other arms (a
\* write that fails, an arm whose arrays do not fit x); an arm whose
\* arrays do not fit x is left as it was.
C16_BulkUpdateIndependent ==
    [][BulkStep =>
          /\ ret'.raised = "none"
          /\ \A p \in DOMAIN call'.rewards :
                LET arm == call'.rewards[p].arm
                    st == _ensure(_arms, arm)[arm]
                IN  /\ arm \in DOMAIN _arms'
                    /\ _arms'[arm] =
                          IF MatVecDefined(st.A_inv, call'.x)
                          THEN update_arm(st, call'.x, call'.rewards[p].r)
                          ELSE st]_vars

\* the write of the first arm's update failed and the second arm, fresh
\* before the call, has been updated once
C16_Witness ==
    /\ call.op = "bulk_update"
    /\ Len(call.rewards) = 2
    /\ call.ios[1] = "file_fails"
    /\ state_path
    /\ ret.raised = "none"
    /\ n_calls = 1
    /\ _arms[call.rewards[2].arm] = update_arm(FreshArm, call.x, call.rewards[2].r)

\* C17: a failure to write the router state never propagates out of
\* update, bulk_update or select.
C17_WriteFailureSwallowed ==
    call.op \in {"update", "bulk_update", "select"} => ret.raised # "OSError"

\* the payload a new router reads: the file when a path is given and the
\* file exists, else the value in the key/value store
LoadedStore ==
    IF state_path /\ state_file # NoStore THEN state_file
    ELSE IF redis_enabled THEN kv
    ELSE NoStore

\* the dimension a payload was written for: its d, or for the legacy
\* format the length of its arrays
PayloadDim(data) ==
    IF "arms" \in DOMAIN data THEN data.d
    ELSE LET a == CHOOSE a \in DOMAIN data : size_b(data[a].b) > 0
         IN  Len(data[a].b)

JustLoaded == call.op = "init" /\ LoadedStore # NoStore

\* C18: when the router loads persisted state whose dimension differs from
\* its d, it holds no arm state from that payload.
C18_DimensionMismatchResets ==
    (JustLoaded /\ PayloadDim(LoadedStore[1]) # d) => DOMAIN _arms = {}

\* The part of C18 the code keeps: a payload in the current format whose
\* d differs from the router's leaves the router without arms.
CurrentFormatMismatchResets ==
    (JustLoaded /\ "arms" \in DOMAIN LoadedStore[1] /\ LoadedStore[1].d # d)
        => DOMAIN _arms = {}

\* C19: every arm state the router holds has A_inv of shape d x d and b of
\* length d.
C19_ArmShapes == \A a \in DOMAIN _arms : ShapeOK(_arms[a])

\* what select(x, ordered_arms, k) can return, or that it raises
select_outcomes(arms_map, x, ordered_arms, k, arm_bias) ==
    LET m1 == EnsureAll(arms_map, ordered_arms, Len(ordered_arms))
    IN  IF \E p \in 1 .. Len(ordered_arms) : ~ShapeOK(m1[ordered_arms[p]])
        THEN {<<"ValueError">>}
        ELSE {ArmsAt(ordered_arms, idx) :
                 idx \in top_indices(m1, x, ordered_arms, k, arm_bias)}

\* the last _save of the router wrote its present state where a new
\* router built with the same arguments will read it
Saved ==
    \/ state_path /\ state_file = <<payload(_arms)>>
    \/ ~state_path /\ redis_enabled /\ kv = <<payload(_arms)>>

WrongLengthCall ==
    /\ n_calls' = n_calls + 1
    /\ call'.op \in {"select", "update", "bulk_update"}
    /\ Len(call'.x) # d

\* C21: select, update and bulk_update called with a vector whose length
\* differs from d raise, and leave the arm states and the persisted state
\* as they were.
C21_WrongLengthRaisesUnchanged ==
    [][WrongLengthCall =>
          /\ ret'.raised = "ValueError"
          /\ _arms' = _arms
          /\ state_file' = state_file
          /\ kv' = kv]_vars

\* a wrong-length call has been made on a router that holds a learnt arm
\* and has a state file
C21_Witness ==
    /\ call.op \in {"select", "update", "bulk_update"}
    /\ Len(call.x) # d
    /\ ret.raised = "ValueError"
    /\ state_file # NoStore
    /\ \E a \in DOMAIN _arms : _arms[a] # FreshArm

\* no preview stream, cache access, judge call or full-answer stream has
\* been started in this run
NothingStarted ==
    /\ \A i \in Candidates : previewState[i] = "created" /\ fullStarts[i] = 0
    /\ i_preview = 0
    /\ previews_results = <<>>
    /\ judgeCalls = 0

\* C22: with agent_models = [] the run raises a configuration error before
\* any I/O: it never leaves the entry check except by raising, and no preview
\* stream, cache access, judge call, router load or metrics read happens.
C22_EmptyModelsRaiseBeforeIO ==
    num_agents = 0 =>
        /\ pc \in {"entry", "raised_config"}
        /\ NothingStarted
        /\ entry_io = {}
        /\ \A a \in Arms : updates[a] = 0

\* a bandit run given no models has raised
C22_Witness ==
    /\ num_agents = 0
    /\ strategy = "bandit"
    /\ pc = "raised_config"

\* C23: invalid reward weights are rejected at entry, before any preview
\* stream, judge call or full-answer stream has been started.
C23_InvalidWeightsRejectedAtEntry ==
    (num_agents > 0 /\ ~QualityLatencyCostWeights(reward_weights)) =>
        /\ pc \in {"entry", "raised_weights"}
        /\ NothingStarted

\* What the code does with invalid weights: under BANDIT they are refused
\* only once a full answer has been streamed, and under BASELINE never.
InvalidWeightsRefusedLate ==
    /\ pc = "raised_weights" =>
           /\ strategy = "bandit"
           /\ final_idx # None
           /\ judgeCalls = 1
    /\ (pc = "returned" /\ strategy = "bandit") =>
           QualityLatencyCostWeights(reward_weights)

\* C25: judge_previews is attempted at most 3 times per call; a run whose
\* judge call failed did so on the third attempt of its only call and has
\* started no full-answer stream.
C25_JudgeAtMostThreeAttempts ==
    /\ judgeAttempts <= 3
    /\ judgeCalls <= 1
    /\ pc = "raised_judge" =>
           /\ judgeAttempts = 3
           /\ final_idx = None
           /\ \A i \in Candidates : fullStarts[i] = 0 /\ task[i] = "none"

\* the judge failed three times in a run of two candidates
C25_Witness ==
    /\ pc = "raised_judge"
    /\ judgeAttempts = 3
    /\ num_agents >= 2

\* ------------------------------------------------------ stream_response
\* One call of stream_response over a stream of events.  The text of an
\* event is a sequence of characters, "x" for a letter and " " for white
\* space; <<>> is an event agentsdk_text_stream yields nothing for.

MaxEvents == 3
MaxStop == 2

Chunks == {<<>>, <<"x">>, <<" ">>, <<"x", " ", "x">>, <<" ", "x", " ">>}

RECURSIVE EventLists(_)
EventLists(n) ==
    IF n = 0 THEN {<<>>}
    ELSE LET shorter == EventLists(n - 1)
         IN  shorter \cup {Append(l, c) : l \in {m \in shorter : Len(m) = n - 1},
                                          c \in Chunks}

\* Faulty variant: every chunk counts as one token.
one_per_chunk(s) == 1

\* len(s.split()): the words of s
_count_tokens(s) ==
    Cardinality({k \in 1 .. Len(s) : s[k] # " " /\ (k = 1 \/ s[k - 1] = " ")})

RECURSIVE lstrip(_)
lstrip(s) == IF s # <<>> /\ Head(s) = " " THEN lstrip(Tail(s)) ELSE s

RECURSIVE rstrip(_)
rstrip(s) ==
    IF s # <<>> /\ s[Len(s)] = " " THEN rstrip(SubSeq(s, 1, Len(s) - 1)) ELSE s

\* str.strip()
strip(s) == rstrip(lstrip(s))

\* "".join(buf)
RECURSIVE join(_)
join(chunks) == IF chunks = <<>> THEN <<>> ELSE Head(chunks) \o join(Tail(chunks))

\* the truth value of stop_after_tokens: neither None nor 0
stop_set == stop_after_tokens # None /\ stop_after_tokens # 0

\* return token_count, ("".join(buf).strip() if capture_text else None)
stream_result(tokens, chunks) ==
    <<[tokens |-> tokens,
       text |-> IF capture_text THEN <<strip(join(chunks))>> ELSE <<>>]>>

StreamInit ==
    /\ RaceIdle
    /\ RouterIdle
    /\ MoreIdle
    /\ JudgeIdle
    /\ MetricsIdle
    /\ CacheIdle
    /\ stream_events \in EventLists(MaxEvents)
    /\ stop_after_tokens \in {None} \cup (0 .. MaxStop)
    /\ capture_text \in BOOLEAN
    /\ events_read = 0
    /\ token_count = 0
    /\ buf = <<>>
    /\ stream_pc = "streaming"
    /\ stream_ret = <<>>
    /\ stream_attempt = 1

StreamOthers == <<raceVars, routerVars, judgeUnitVars, metricsVars, cacheVars,
                  citVars, rewardVars, romaVars>>

\* agentsdk_text_stream takes an event that carries no text and yields
\* nothing: the loop body of stream_response does not run.
SkipEvent ==
    /\ stream_pc = "streaming"
    /\ events_read < Len(stream_events)
    /\ stream_events[events_read + 1] = <<>>
    /\ events_read' = events_read + 1
    /\ UNCHANGED <<stream_events, stop_after_tokens, capture_text, token_count,
                   buf, stream_pc, stream_ret, stream_attempt>>
    /\ UNCHANGED StreamOthers

\* One pass of the loop body on the next chunk; on reaching the stop
\* count the loop breaks and the function returns.
Chunk ==
    /\ stream_pc = "streaming"
    /\ events_read < Len(stream_events)
    /\ stream_events[events_read + 1] # <<>>
    /\ LET chunk == stream_events[events_read + 1]
           count == token_count + _count_tokens(chunk)
           kept == IF capture_text THEN Append(buf, chunk) ELSE buf
       IN  /\ events_read' = events_read + 1
           /\ token_count' = count
           /\ buf' = kept
           /\ IF stop_set /\ count >= stop_after_tokens
              THEN /\ stream_pc' = "returned"
                   /\ stream_ret' = stream_result(count, kept)
              ELSE UNCHANGED <<stream_pc, stream_ret>>
    /\ UNCHANGED <<stream_events, stop_after_tokens, capture_text, stream_attempt>>
    /\ UNCHANGED StreamOthers

\* The stream is exhausted: the loop ends and the function returns.
StreamEnd ==
    /\ stream_pc = "streaming"
    /\ events_read = Len(stream_events)
    /\ stream_pc' = "returned"
    /\ stream_ret' = stream_result(token_count, buf)
    /\ UNCHANGED <<stream_events, stop_after_tokens, capture_text, events_read,
                   token_count, buf, stream_attempt>>
    /\ UNCHANGED StreamOthers

\* locals that survive from one attempt to the next
kept_locals(count, chunks) == [token_count |-> count, buf |-> chunks]

\* token_count = 0 and buf = [] at the start of the function body: every
\* attempt starts with locals of its own
fresh_locals(count, chunks) == [token_count |-> 0, buf |-> <<>>]

\* stop=stop_after_attempt(5)
stream_stop(attempt_number) == attempt_number >= STREAM_ATTEMPTS

\* The provider stream raises an Exception while the attempt is running:
\* the @retry wrapper calls the function again (a new stream, delivering
\* the events from the start), or re-raises once the stop condition holds.
StreamRaises ==
    /\ stream_pc = "streaming"
    /\ IF stream_stop(stream_attempt)
       THEN /\ stream_pc' = "raised"
            /\ UNCHANGED <<events_read, token_count, buf, stream_attempt>>
       ELSE /\ stream_attempt' = stream_attempt + 1
            /\ events_read' = 0
            /\ token_count' = fresh_locals(token_count, buf).token_count
            /\ buf' = fresh_locals(token_count, buf).buf
            /\ UNCHANGED stream_pc
    /\ UNCHANGED <<stream_events, stop_after_tokens, capture_text, stream_ret>>
    /\ UNCHANGED StreamOthers

StreamNext == SkipEvent \/ Chunk \/ StreamEnd \/ StreamRaises

SpecStream == StreamInit /\ [][StreamNext]_vars

\* ---- properties of stream_response
\* the event carries a word
HasWord(ev) == \E k \in 1 .. Len(ev) : ev[k] # " "

\* the words of an event, counted at their last letters
WordsOf(ev) ==
    Cardinality({k \in 1 .. Len(ev) :
                     ev[k] # " " /\ (k = Len(ev) \/ ev[k + 1] = " ")})

RECURSIVE WordsUpTo(_)
WordsUpTo(k) == IF k = 0 THEN 0 ELSE WordsUpTo(k - 1) + WordsOf(stream_events[k])

\* the first position satisfying P, or the length of the stream
FirstOr(positions) ==
    IF positions = {} THEN Len(stream_events)
    ELSE CHOOSE k \in positions : \A j \in positions : k <= j

\* C24 (as stated): with stop_after_tokens = 1 the call returns after the
\* first non-empty text delta, whatever that delta contains.
C24_ReturnsAfterFirstNonEmptyDelta ==
    (stream_pc = "returned" /\ stop_after_tokens = 1) =>
        events_read = FirstOr({k \in 1 .. Len(stream_events) : stream_events[k] # <<>>})

\* C24 (amended): with stop_after_tokens >= 1 the loop runs only while
\* token_count < stop_after_tokens, and the call returns at the first event
\* with which the words counted reach stop_after_tokens, reading no event
\* after it; with stop_after_tokens = 1 that is the first delta that holds
\* a word, deltas of white space being passed over.
C24_StopsWhenTokensReached ==
    /\ (stream_pc = "streaming" /\ stop_after_tokens >= 1) =>
           token_count < stop_after_tokens
    /\ (stream_pc = "returned" /\ stop_after_tokens >= 1) =>
           /\ events_read =
                  FirstOr({k \in 1 .. Len(stream_events) :
                               WordsUpTo(k) >= stop_after_tokens})
           /\ stream_ret[1].tokens = WordsUpTo(events_read)
    /\ (stream_pc = "returned" /\ stop_after_tokens = 1) =>
           events_read =
               FirstOr({k \in 1 .. Len(stream_events) : HasWord(stream_events[k])})

\* a call with stop_after_tokens = 1 passed over a delta of white space,
\* returned at the next one and left an event unread
C24_Witness ==
    /\ stream_pc = "returned"
    /\ stop_after_tokens = 1
    /\ Len(stream_events) = 3
    /\ stream_events[1] = <<" ">>
    /\ events_read = 2

\* ------------------------------- judge_previews and compute_candidate_order
\* One attempt of judge_previews on what the judge wrote, and the ordering
\* of the verdict it returned.  Scores are in tenths.

\* relevance, coverage and faithfulness of a score: all in range, or one
\* of them out of range
OtherFields == {<<5, 5, 5>>, <<0 - 1, 5, 5>>, <<5, 11, 5>>, <<5, 5, 11>>}

ScoreInputs ==
    {[index |-> i, relevance |-> q[1], coverage |-> q[2], faithfulness |-> q[3],
      overall |-> o] :
        i \in (0 - 1) .. MaxN, q \in OtherFields, o \in {0, 5, 10, 11}}

ScoreLists ==
    {<<>>} \cup {<<s>> : s \in ScoreInputs}
           \cup {<<s, t>> : s \in ScoreInputs, t \in ScoreInputs}

\* what the judge may write: no JSON object, or an object
JudgeOutputs ==
    {<<>>} \cup {<<[winner_index |-> w, scores |-> l]>> :
                     w \in {0 - 1, 0}, l \in ScoreLists}

\* a float field with ge=0, le=1
UnitInterval(v) == v >= 0 /\ v <= 10

\* JudgeScores: index has ge=0, the four scores ge=0 and le=1
JudgeScores(s) ==
    /\ s.index >= 0
    /\ UnitInterval(s.relevance)
    /\ UnitInterval(s.coverage)
    /\ UnitInterval(s.faithfulness)
    /\ UnitInterval(s.overall)

\* JudgeVerdict.model_validate(data) accepts data
model_validate(data) ==
    /\ data.winner_index >= 0
    /\ \A k \in 1 .. Len(data.scores) : JudgeScores(data.scores[k])

\* index_to_overall = {s.index: float(s.overall) for s in verdict.scores}:
\* a later score of the same index replaces an earlier one
index_to_overall(score_list) ==
    [i \in {score_list[k].index : k \in 1 .. Len(score_list)} |->
        LET last == CHOOSE k \in 1 .. Len(score_list) :
                        /\ score_list[k].index = i
                        /\ \A j \in (k + 1) .. Len(score_list) : score_list[j].index # i
        IN  score_list[last].overall]

\* key=lambda i: index_to_overall.get(i, 0.0)
overall_key(score_list, i) ==
    LET m == index_to_overall(score_list)
    IN  IF i \in DOMAIN m THEN m[i] ELSE 0

\* Faulty variant: equal keys come out in descending index order.
order_ties_reversed(v, n) ==
    LET key == [i \in 0 .. (n - 1) |-> overall_key(v.scores, i)]
        rank(i) == Cardinality({j \in 0 .. (n - 1) :
                        \/ key[j] > key[i]
                        \/ (key[j] = key[i] /\ j > i)})
    IN  [p \in 1 .. n |-> CHOOSE i \in 0 .. (n - 1) : rank(i) = p - 1]

\* compute_candidate_order of a JudgeVerdict:
\* sorted(range(total_candidates), key=..., reverse=True)
order_of_verdict(v, n) ==
    compute_candidate_order([i \in 0 .. (n - 1) |-> overall_key(v.scores, i)], n)

JudgeUnitInit ==
    /\ RaceIdle
    /\ RouterIdle
    /\ MoreIdle
    /\ StreamIdle
    /\ MetricsIdle
    /\ CacheIdle
    /\ judge_output \in JudgeOutputs
    /\ total_candidates \in 1 .. MaxN
    /\ verdict = <<>>
    /\ judge_raised = "none"
    /\ order = <<>>
    /\ judge_pc = "called"

JudgeOthers == <<raceVars, routerVars, streamVars, metricsVars, cacheVars,
                 citVars, rewardVars, romaVars>>

\* data = _extract_json_object(text); if not data: raise ValueError
JudgeNoJSON ==
    /\ judge_pc = "called"
    /\ judge_output = <<>>
    /\ judge_raised' = "ValueError"
    /\ judge_pc' = "raised"
    /\ UNCHANGED <<judge_output, total_candidates, verdict, order>>
    /\ UNCHANGED JudgeOthers

\* verdict = JudgeVerdict.model_validate(data); return verdict
JudgeValidate ==
    /\ judge_pc = "called"
    /\ judge_output # <<>>
    /\ IF model_validate(judge_output[1])
       THEN /\ verdict' = judge_output
            /\ judge_pc' = "returned"
            /\ UNCHANGED judge_raised
       ELSE /\ judge_raised' = "ValidationError"
            /\ judge_pc' = "raised"
            /\ UNCHANGED verdict
    /\ UNCHANGED <<judge_output, total_candidates, order>>
    /\ UNCHANGED JudgeOthers

\* ordered_indices = compute_candidate_order(verdict, num_agents)
OrderCandidates ==
    /\ judge_pc = "returned"
    /\ order' = order_of_verdict(verdict[1], total_candidates)
    /\ judge_pc' = "ordered"
    /\ UNCHANGED <<judge_output, total_candidates, verdict, judge_raised>>
    /\ UNCHANGED JudgeOthers

JudgeNext == JudgeNoJSON \/ JudgeValidate \/ OrderCandidates

SpecJudge == JudgeUnitInit /\ [][JudgeNext]_vars

\* ---- properties of the judge unit
Accepted == judge_pc \in {"returned", "ordered"}

\* C26: an accepted verdict for N candidates has every index in [0, N) and
\* every relevance, coverage, faithfulness and overall in [0, 1].
C26_AcceptedVerdictInBounds ==
    Accepted =>
        \A k \in 1 .. Len(verdict[1].scores) :
            LET s == verdict[1].scores[k]
            IN  /\ s.index >= 0 /\ s.index < total_candidates
                /\ \A v \in {s.relevance, s.coverage, s.faithfulness, s.overall} :
                       v >= 0 /\ v <= 10

\* What the validation does enforce: the four scores are in [0, 1] and the
\* index is not negative; and an output is refused only for breaking that.
AcceptedVerdictFieldBounds ==
    /\ Accepted =>
           \A k \in 1 .. Len(verdict[1].scores) :
               LET s == verdict[1].scores[k]
               IN  /\ s.index >= 0
                   /\ \A v \in {s.relevance, s.coverage, s.faithfulness, s.overall} :
                          v >= 0 /\ v <= 10
    /\ judge_pc = "raised" => verdict = <<>>

\* the overall score of candidate i in the verdict, 0 if it has none
OverallOf(i) ==
    LET score_list == verdict[1].scores
        mine == {k \in 1 .. Len(score_list) : score_list[k].index = i}
    IN  IF mine = {} THEN 0
        ELSE score_list[CHOOSE k \in mine : \A j \in mine : j <= k].overall

\* C27: compute_candidate_order(verdict, N) is a permutation of 0..N-1,
\* sorted by overall score descending with a missing index counting as 0,
\* candidates of equal score in ascending index order.
C27_OrderIsStableDescendingPermutation ==
    judge_pc = "ordered" =>
        /\ Len(order) = total_candidates
        /\ {order[p] : p \in 1 .. Len(order)} = 0 .. (total_candidates - 1)
        /\ \A p \in 1 .. (Len(order) - 1) :
               \/ OverallOf(order[p]) > OverallOf(order[p + 1])
               \/ /\ OverallOf(order[p]) = OverallOf(order[p + 1])
                  /\ order[p] < order[p + 1]

\* three candidates were ordered: one without a score, tied with one
\* scored 0, behind one that was scored higher
C27_Witness ==
    /\ judge_pc = "ordered"
    /\ total_candidates = 3
    /\ Len(verdict[1].scores) = 2
    /\ verdict[1].scores[1].index = 2
    /\ verdict[1].scores[1].overall = 0
    /\ verdict[1].scores[2].index = 1
    /\ verdict[1].scores[2].overall = 5
    /\ order = <<1, 0, 2>>

\* ---- full-answer attempts that raise
\* An attempt of _run_full_for_index that exceeds full_timeout_s raises
\* TimeoutError out of asyncio.wait_for; the orchestrator handles it as it
\* handles any exception of the stream, so task[i] = "failed" stands for
\* both.

\* C28: a full-answer attempt that timed out is a failed attempt: its
\* candidate is in fallback_failed_indices when the run returns, and the
\* run goes on to the next candidate instead of failing.
C28_TimedOutAttemptRecorded ==
    /\ pc = "returned" =>
           \A i \in Candidates :
               task[i] = "failed" => i \in Range(failed_full_indices)
    /\ pc # "raised_stream_error"

\* What holds: in the sequential traversal every attempt that raised is
\* recorded at once and the loop goes on.
SequentialFailureRecorded ==
    ~do_speculative =>
        /\ \A i \in Candidates :
               task[i] = "failed" => i \in Range(failed_full_indices)
        /\ pc # "raised_stream_error"

\* ------------------------------------------- the preview latency store
\* record_preview_latency loads the metrics file, appends, trims and saves.
\* A store maps every arm to its list of samples, <<>> for an arm the file
\* does not name (store.preview_latency_s.get(model, [])).

MAX_LAT_SAMPLES == 100
MaxRecords == 3

\* latencies a caller may pass, and the model names
Latencies == {0, 1, 2}
ModelNames == {""} \cup Arms

\* a list of n samples as n successful calls leave it
Ramp(n) == [k \in 1 .. n |-> 1 + (k % 2)]

EmptyStore == [a \in Arms |-> <<>>]

\* the store of a file written by n calls for arm "a"
StoreOf(n) == [EmptyStore EXCEPT !["a"] = Ramp(n)]

\* metrics files a sequence of calls starts from: none, or one holding
\* MAX_LAT_SAMPLES - 1 or MAX_LAT_SAMPLES samples of arm "a"
InitialStores == {EmptyStore, StoreOf(MAX_LAT_SAMPLES - 1), StoreOf(MAX_LAT_SAMPLES)}

\* _load(path): the store of the file, an empty one if there is no file
metrics_load(file) == IF file = <<>> THEN EmptyStore ELSE file[1]

\* Faulty variant: the oldest samples are kept.
head_samples(arr) ==
    IF Len(arr) > MAX_LAT_SAMPLES THEN SubSeq(arr, 1, MAX_LAT_SAMPLES) ELSE arr

\* if len(arr) > MAX_LAT_SAMPLES: arr = arr[-MAX_LAT_SAMPLES:]
tail_samples(arr) ==
    IF Len(arr) > MAX_LAT_SAMPLES
    THEN SubSeq(arr, Len(arr) - MAX_LAT_SAMPLES + 1, Len(arr))
    ELSE arr

\* _save(store, path): write_text in try/except pass
metrics_save(store, file, io) == IF io = "ok" THEN <<store>> ELSE file

\* record_preview_latency(model, latency_s): the file it leaves
record_preview_latency(file, model, latency_s, io) ==
    IF model = "" \/ latency_s <= 0
    THEN file
    ELSE LET store == metrics_load(file)
             arr == tail_samples(Append(store[model], latency_s))
         IN  metrics_save([store EXCEPT ![model] = arr], file, io)

MetricsInit ==
    /\ RaceIdle
    /\ RouterIdle
    /\ MoreIdle
    /\ StreamIdle
    /\ JudgeIdle
    /\ CacheIdle
    /\ \E store \in InitialStores :
        /\ metrics_file = IF store = EmptyStore THEN <<>> ELSE <<store>>
        /\ recorded = store
        /\ written = store
    /\ n_records = 0

MetricsOthers == <<raceVars, routerVars, streamVars, judgeUnitVars, cacheVars,
                   citVars, rewardVars, romaVars>>

RecordPreviewLatency(model, latency_s, io) ==
    /\ n_records < MaxRecords
    /\ n_records' = n_records + 1
    /\ metrics_file' = record_preview_latency(metrics_file, model, latency_s, io)
    /\ recorded' = IF model # "" /\ latency_s > 0
                   THEN [recorded EXCEPT ![model] = Append(@, latency_s)]
                   ELSE recorded
    /\ written' = IF model # "" /\ latency_s > 0 /\ io = "ok"
                  THEN [written EXCEPT ![model] = Append(@, latency_s)]
                  ELSE written
    /\ UNCHANGED MetricsOthers

MetricsNext ==
    \E model \in ModelNames, latency_s \in Latencies, io \in {"ok", "write_fails"} :
        RecordPreviewLatency(model, latency_s, io)

SpecMetrics == MetricsInit /\ [][MetricsNext]_vars

\* ---- properties of the latency store
\* the samples the file holds for an arm
Samples(a) == metrics_load(metrics_file)[a]

\* the last n entries of a list
MostRecent(l, n) == IF Len(l) > n THEN SubSeq(l, Len(l) - n + 1, Len(l)) ELSE l

MaxCacheCalls == 3

Texts == {<<>>, <<"x">>, <<"\"">>, <<"\\">>, <<"x", "\\", "\"">>}
TokenCounts == {0 - 1, 0, 7, 120}

\* the decimal digits json.dumps writes for a number n >= 0
RECURSIVE ToDigits(_)
ToDigits(n) == IF n < 10 THEN <<n>> ELSE Append(ToDigits(n \div 10), n % 10)

\* the number json.loads reads from digits
RECURSIVE FromDigits(_)
FromDigits(ds) ==
    IF Len(ds) = 1 THEN ds[1]
    ELSE 10 * FromDigits(SubSeq(ds, 1, Len(ds) - 1)) + ds[Len(ds)]

\* Faulty variant: the text is written as it is.
escape_none(text) == text

\* the body of the JSON string json.dumps writes for text
RECURSIVE escape(_)
escape(text) ==
    IF text = <<>> THEN <<>>
    ELSE (IF Head(text) \in {"\"", "\\"} THEN <<"\\", Head(text)>> ELSE <<Head(text)>>)
         \o escape(Tail(text))

\* json.loads can read s as the body of a string
RECURSIVE well_formed(_)
well_formed(s) ==
    IF s = <<>> THEN TRUE
    ELSE IF Head(s) = "\\" THEN Len(s) >= 2 /\ well_formed(SubSeq(s, 3, Len(s)))
    ELSE Head(s) # "\"" /\ well_formed(Tail(s))

\* the text json.loads reads from the body of a string
RECURSIVE unescape(_)
unescape(s) ==
    IF s = <<>> THEN <<>>
    ELSE IF Head(s) = "\\" THEN <<s[2]>> \o unescape(SubSeq(s, 3, Len(s)))
    ELSE <<Head(s)>> \o unescape(Tail(s))

\* json.dumps({"tokens": int(tokens), "text": text})
dumps(tokens, text) ==
    [json |-> TRUE, tokens |-> ToDigits(tokens), text |-> escape(text)]

\* a value under a preview key that no preview_cache_set wrote
Garbage == [json |-> FALSE]

NoEntry == [key \in Keys |-> <<>>]

\* preview_cache_get(key): <<>> for None, else <<the pair>>
preview_cache_get(store, key) ==
    IF ~redis_url THEN <<>>
    ELSE IF store[key] = <<>> THEN <<>>
    ELSE LET val == store[key][1]
         IN  IF ~val.json THEN <<>>
             ELSE IF ~well_formed(val.text) THEN <<>>
             ELSE <<[tokens |-> FromDigits(val.tokens), text |-> unescape(val.text)]>>

\* preview_cache_set(key, tokens, text): the store it leaves
preview_cache_set(store, key, tokens, text) ==
    IF ~redis_url THEN store
    ELSE IF tokens <= 0 \/ text = <<>> THEN store
    ELSE [store EXCEPT ![key] = <<dumps(tokens, text)>>]

CacheInit ==
    /\ RaceIdle
    /\ RouterIdle
    /\ MoreIdle
    /\ StreamIdle
    /\ JudgeIdle
    /\ MetricsIdle
    /\ redis_url \in BOOLEAN
    /\ cache \in {NoEntry, [NoEntry EXCEPT !["k1"] = <<Garbage>>],
                  [NoEntry EXCEPT !["k1"] = <<dumps(7, <<"x">>)>>]}
    /\ cache_call = [op |-> "none"]
    /\ cache_ret = <<>>
    /\ n_cache_calls = 0

CacheOthers == <<raceVars, routerVars, streamVars, judgeUnitVars, metricsVars,
                 citVars, rewardVars, romaVars>>

CacheSet(key, tokens, text) ==
    /\ n_cache_calls < MaxCacheCalls
    /\ n_cache_calls' = n_cache_calls + 1
    /\ cache_call' = [op |-> "set", key |-> key, tokens |-> tokens, text |-> text]
    /\ cache' = preview_cache_set(cache, key, tokens, text)
    /\ cache_ret' = <<>>
    /\ UNCHANGED redis_url
    /\ UNCHANGED CacheOthers

CacheGet(key) ==
    /\ n_cache_calls < MaxCacheCalls
    /\ n_cache_calls' = n_cache_calls + 1
    /\ cache_call' = [op |-> "get", key |-> key]
    /\ cache_ret' = preview_cache_get(cache, key)
    /\ UNCHANGED <<redis_url, cache>>
    /\ UNCHANGED CacheOthers

\* The TTL given to setex has run out: the store drops the key.
Expire(key) ==
    /\ cache[key] # <<>>
    /\ cache_call.op # "expire"
    /\ cache' = [cache EXCEPT ![key] = <<>>]
    /\ cache_call' = [op |-> "expire", key |-> key]
    /\ cache_ret' = <<>>
    /\ UNCHANGED <<redis_url, n_cache_calls>>
    /\ UNCHANGED CacheOthers

CacheNext ==
    \/ \E key \in Keys, tokens \in TokenCounts, text \in Texts :
           CacheSet(key, tokens, text)
    \/ \E key \in Keys : CacheGet(key)
    \/ \E key \in Keys : Expire(key)

SpecCache == CacheInit /\ [][CacheNext]_vars

\* ---- properties of the preview cache
\* preview_cache_get(k) is called right after preview_cache_set(k, ...),
\* before the entry can have expired
GetAfterSet ==
    /\ cache_call.op = "set"
    /\ cache_call'.op = "get"
    /\ cache_call'.key = cache_call.key

\* C30 (as stated): for every key and every value (tokens, text), get
\* after set returns the value.
C30_RoundTripEveryValue ==
    [][GetAfterSet =>
          cache_ret' = <<[tokens |-> cache_call.tokens, text |-> cache_call.text]>>]_vars

\* the value of a set call is one preview_cache_set stores
Storable(c) == redis_url /\ c.tokens > 0 /\ c.text # <<>>

\* C30 (amended): with the cache enabled, tokens > 0 and a non-empty text,
\* get after set returns (tokens, text) while the entry has not expired;
\* any other set call leaves the store as it was.
C30_RoundTripStoredValue ==
    [][/\ (GetAfterSet /\ Storable(cache_call)) =>
              cache_ret' = <<[tokens |-> cache_call.tokens, text |-> cache_call.text]>>
       /\ (cache_call'.op = "set" /\ n_cache_calls' = n_cache_calls + 1
              /\ ~Storable(cache_call')) =>
              cache' = cache]_vars

\* a text holding a backslash and a quote was stored and read back
C30_Witness ==
    /\ cache_call.op = "get"
    /\ cache_ret # <<>>
    /\ cache_ret[1].tokens = 120
    /\ cache_ret[1].text = <<"x", "\\", "\"">>

\* ---- the speculative stage and the reward step
\* C36: when the run returns, every candidate whose full-answer attempt
\* failed, an attempt of the speculative stage included, is in
\* fallback_failed_indices.
C36_EveryFailedAttemptInFallbackList ==
    pc = "returned" =>
        \A i \in Candidates :
            task[i] = "failed" => i \in Range(debug.fallback_failed_indices)

\* a still-running speculative stream is cancelled in this step
CancelStep == \E p \in Candidates : task[p] = "running" /\ task'[p] = "cancelling"

\* C37: a speculative stream is cancelled only after a peer has completed
\* successfully.
C37_CancelOnlyAfterPeerSuccess ==
    [][CancelStep => \E j \in Candidates : task[j] = "ok"]_vars

\* What holds: streams are cancelled only once the first-completed wait
\* has returned, whether the task taken from the done set succeeded or not.
CancelOnlyAfterWaitReturned ==
    [][CancelStep => (pc = "spec_cancel" /\ first # None)]_vars

\* C38: if a speculative stream that succeeded is among those completed
\* when the first-completed wait returns, a successful one becomes the
\* winner.
C38_CompletedSuccessIsTaken ==
    [][(pc = "spec_wait" /\ pc' = "spec_cancel"
          /\ \E i \in DoneTasks(Range(topk), task) : task[i] = "ok")
       => (final_idx' # None /\ task[final_idx'] = "ok")]_vars

\* C39: a bandit run that failed at the judge or with every full attempt
\* failed has made no router update, and selecting the models wrote
\* nothing: the router's persisted state is the one of before the run.
C39_FatalRunEmitsNoReward ==
    (strategy = "bandit" /\ pc \in {"raised_judge", "raised_all_failed"}) =>
        /\ \A a \in Arms : updates[a] = 0
        /\ entry_io = {"router_load", "metrics_read"}

\* a bandit run over two models failed with every full attempt failed
C39_Witness ==
    /\ strategy = "bandit"
    /\ pc = "raised_all_failed"
    /\ num_agents = 2
    /\ "router_load" \in entry_io

(***************************************************************************)
(* citations.py: normalize_url.  A URL string is a sequence of atoms, each *)
(* atom standing for a run of characters the function treats alike: the    *)
(* separators ":", "/", "?", "&", "#", ".", a blank, host and path words   *)
(* in either case, and whole query parameters.                             *)
(***************************************************************************)
UrlPads == {<<>>, <<" ">>}
UrlSchemes == {<<>>, <<"https", ":">>, <<"HTTPS", ":">>}
UrlAuthorities ==
    {<<>>, <<"/", "/">>, <<"/", "/", "ex">>, <<"/", "/", "www", ".", "ex">>,
     <<"/", "/", "WWW", ".", "www", ".", "ex">>}
UrlPaths == {<<>>, <<"/">>, <<"/", "a">>, <<"/", "a", "/">>, <<"/", "a", " ", "/">>}
UrlQueries == {<<>>, <<"?">>, <<"?", "b=2", "&", "a=1">>, <<"?", "utm=x", "&", "c">>}

Urls ==
    {p \o s \o a \o pa \o q \o t :
        p \in UrlPads, s \in UrlSchemes, a \in UrlAuthorities,
        pa \in UrlPaths, q \in UrlQueries, t \in UrlPads}

\* characters a scheme may consist of (urllib.parse.scheme_chars)
scheme_chars == {"https", "HTTPS", "www", "WWW", "ex", "a", "."}

\* str.lower()
lower(s) ==
    [k \in 1 .. Len(s) |->
        CASE s[k] = "HTTPS" -> "https"
          [] s[k] = "WWW" -> "www"
          [] OTHER -> s[k]]

\* position of the first atom of s among `atoms` at or after `start`, 0 if none
find(s, atoms, start) ==
    LET hits == {k \in start .. Len(s) : s[k] \in atoms}
    IN  IF hits = {} THEN 0 ELSE CHOOSE k \in hits : \A h \in hits : k <= h

\* s[start:]
From(s, start) == SubSeq(s, start, Len(s))

\* the position of the ":" that ends a scheme, 0 when there is no scheme
scheme_end(s) ==
    LET colon == find(s, {":"}, 1)
    IN  IF colon > 1 /\ \A k \in 1 .. (colon - 1) : s[k] \in scheme_chars
        THEN colon ELSE 0

\* url[:2] == '//'
has_netloc(rest) == Len(rest) >= 2 /\ rest[1] = "/" /\ rest[2] = "/"

\* _splitnetloc: the netloc ends before the first of "/", "?", "#"
netloc_end(rest) ==
    LET delim == find(rest, {"/", "?", "#"}, 3)
    IN  IF delim = 0 THEN Len(rest) + 1 ELSE delim

\* url.split('#', 1)[0]
cut_fragment(rest) ==
    LET hash == find(rest, {"#"}, 1)
    IN  IF hash = 0 THEN rest ELSE SubSeq(rest, 1, hash - 1)

\* url.split('?', 1), given the position of the first "?"
split_query(rest, mark) ==
    [path |-> IF mark = 0 THEN rest ELSE SubSeq(rest, 1, mark - 1),
     query |-> IF mark = 0 THEN <<>> ELSE From(rest, mark + 1)]

path_query(rest) == split_query(rest, find(rest, {"?"}, 1))

\* what urlsplit makes of the part after the scheme
split_netloc(scheme, rest, stop) ==
    [scheme |-> scheme,
     netloc |-> IF has_netloc(rest) THEN SubSeq(rest, 3, stop - 1) ELSE <<>>]
        @@ path_query(cut_fragment(IF has_netloc(rest) THEN From(rest, stop) ELSE rest))

after_scheme(scheme, rest) == split_netloc(scheme, rest, netloc_end(rest))

split_scheme(s, colon) ==
    after_scheme(IF colon = 0 THEN <<>> ELSE lower(SubSeq(s, 1, colon - 1)),
                 IF colon = 0 THEN s ELSE From(s, colon + 1))

lstripped_urlsplit(s) == split_scheme(s, scheme_end(s))

\* urllib.parse.urlsplit: [scheme, netloc, path, query]
urlsplit(u) == lstripped_urlsplit(lstrip(u))

\* host.startswith("www.") and host[4:]
drop_www(host) ==
    IF Len(host) >= 2 /\ host[1] = "www" /\ host[2] = "." THEN From(host, 3) ELSE host

\* str.rstrip("/")
RECURSIVE rstrip_slash(_)
rstrip_slash(p) ==
    IF p # <<>> /\ p[Len(p)] = "/" THEN rstrip_slash(SubSeq(p, 1, Len(p) - 1)) ELSE p

\* urllib.parse.parse_qsl(query, keep_blank_values=True): the (key, value)
\* pairs of the non-empty pieces between "&"
RECURSIVE parse_qsl(_)
parse_qsl(query) ==
    IF query = <<>> THEN <<>>
    ELSE IF Head(query) = "&" THEN parse_qsl(Tail(query))
    ELSE LET piece == Head(query)
             pair == CASE piece = "a=1" -> <<"a", "1">>
                       [] piece = "b=2" -> <<"b", "2">>
                       [] piece = "utm=x" -> <<"utm", "x">>
                       [] OTHER -> <<piece, "">>
         IN  <<pair>> \o parse_qsl(Tail(query))

TRACKING_PREFIXES == {"utm", "ref", "fbclid", "gclid", "mc_cid", "mc_eid", "igshid"}

\* the order of the keys under list.sort()
key_rank(k) ==
    CASE k = "a" -> 1 [] k = "b" -> 2 [] k = "c" -> 3 [] k = "utm" -> 4 [] OTHER -> 5

\* a parameter put into a sorted list, after the keys that sort before it
insert_param(p, sorted, n) == SubSeq(sorted, 1, n) \o <<p>> \o From(sorted, n + 1)

sorted_insert(p, sorted) ==
    insert_param(p, sorted,
                 Cardinality({k \in 1 .. Len(sorted) :
                                  key_rank(sorted[k][1]) < key_rank(p[1])}))

\* params.sort(), by insertion
RECURSIVE sort_params(_)
sort_params(params) ==
    IF params = <<>> THEN <<>>
    ELSE sorted_insert(Head(params), sort_params(Tail(params)))

\* the parameters kept: not any(k.lower().startswith(p) for p in
\* TRACKING_PREFIXES); of the keys here only "utm" starts with a prefix
RECURSIVE keep_params(_)
keep_params(params) ==
    IF params = <<>> THEN <<>>
    ELSE IF Head(params)[1] \in TRACKING_PREFIXES THEN keep_params(Tail(params))
    ELSE <<Head(params)>> \o keep_params(Tail(params))

\* one parameter as urlencode writes it
encoded(p) ==
    CASE p = <<"a", "1">> -> "a=1"
      [] p = <<"b", "2">> -> "b=2"
      [] p = <<"utm", "x">> -> "utm=x"
      [] p = <<"c", "">> -> "c="
      [] OTHER -> p[1]

\* urllib.parse.urlencode
RECURSIVE urlencode(_)
urlencode(params) ==
    IF params = <<>> THEN <<>>
    ELSE IF Tail(params) = <<>> THEN <<encoded(Head(params))>>
    ELSE <<encoded(Head(params)), "&">> \o urlencode(Tail(params))

\* the "//" + netloc + path part of urlunsplit
with_netloc(scheme, netloc, p) ==
    IF netloc # <<>>
       \/ (scheme = <<"https">> /\ ~(Len(p) >= 2 /\ p[1] = "/" /\ p[2] = "/"))
    THEN <<"/", "/">> \o netloc \o (IF p # <<>> /\ p[1] # "/" THEN <<"/">> \o p ELSE p)
    ELSE p

with_scheme(scheme, rest) == IF scheme # <<>> THEN scheme \o <<":">> \o rest ELSE rest

with_query(rest, query) == IF query # <<>> THEN rest \o <<"?">> \o query ELSE rest

\* urllib.parse.urlunsplit((scheme, netloc, path, query, "")); of the schemes
\* here "https" is in uses_netloc
urlunsplit(scheme, netloc, p, query) ==
    with_query(with_scheme(scheme, with_netloc(scheme, netloc, p)), query)

\* sp.path.rstrip("/") or "/"
path_or_root(p) == IF p = <<>> THEN <<"/">> ELSE p

normalize_split(sp) ==
    urlunsplit(sp.scheme,
               drop_www(lower(sp.netloc)),
               path_or_root(rstrip_slash(sp.path)),
               urlencode(sort_params(keep_params(parse_qsl(sp.query)))))

normalize_url(u) == IF u = <<>> THEN u ELSE normalize_split(urlsplit(strip(u)))

UrlOthers == <<raceVars, routerVars, streamVars, judgeUnitVars, metricsVars,
               cacheVars, rewardVars, romaVars>>

UrlInit ==
    /\ RaceIdle
    /\ RouterIdle
    /\ StreamIdle /\ JudgeIdle /\ MetricsIdle /\ CacheIdle /\ RewardIdle /\ RomaIdle
    /\ url \in Urls
    /\ normalized = <<>>
    /\ renormalized = <<>>
    /\ citation_lists = <<>>
    /\ deduped = <<>>

\* normalize_url(url)
NormalizeUrl ==
    /\ normalized = <<>>
    /\ normalized' = <<normalize_url(url)>>
    /\ UNCHANGED <<url, renormalized, citation_lists, deduped>>
    /\ UNCHANGED UrlOthers

\* normalize_url of what NormalizeUrl returned
NormalizeAgain ==
    /\ normalized # <<>>
    /\ renormalized = <<>>
    /\ renormalized' = <<normalize_url(normalized[1])>>
    /\ UNCHANGED <<url, normalized, citation_lists, deduped>>
    /\ UNCHANGED UrlOthers

UrlNext == NormalizeUrl \/ NormalizeAgain

SpecUrl == UrlInit /\ [][UrlNext]_vars

\* C31: normalize_url is idempotent: normalizing a normalized URL returns it
\* unchanged.
C31_NormalizeUrlIdempotent ==
    renormalized # <<>> => renormalized[1] = normalized[1]

\* The part of C31 that holds: a third application changes nothing.
NormalizeUrlSettles ==
    renormalized # <<>> => normalize_url(renormalized[1]) = renormalized[1]

(***************************************************************************)
(* citations.py: dedupe_citations and merge_and_dedupe.  A list entry is   *)
(* [is_dict, title, url]; an entry that is not a dict has is_dict = FALSE. *)
(***************************************************************************)
MaxCitations == 2

CitedUrls ==
    {<<" ">>,
     <<"https", ":", "/", "/", "WWW", ".", "www", ".", "ex", "/", "a">>,
     <<" ", "https", ":", "/", "/", "www", ".", "ex", "/", "a">>,
     <<"https", ":", "/", "/", "ex", "/", "a", "/">>}

Titles == {<<"A">>, <<"B", " ">>}

NotADict == [is_dict |-> FALSE, title |-> <<>>, url |-> <<>>]

Citations ==
    {NotADict} \cup [is_dict : {TRUE}, title : Titles, url : CitedUrls \ {<<" ">>}]
               \cup {[is_dict |-> TRUE, title |-> <<"A">>, url |-> <<" ">>]}

RECURSIVE CitationLists(_)
CitationLists(n) ==
    IF n = 0 THEN {<<>>}
    ELSE LET shorter == CitationLists(n - 1)
         IN  shorter \cup {Append(l, c) : l \in {m \in shorter : Len(m) = n - 1},
                                          c \in Citations}

\* a `seen` test that never finds the URL
seen_nothing(norm, seen) == FALSE

\* norm in seen
in_seen(norm, seen) == norm \in seen

\* normalize_url(str(c.get("url", "")).strip())
entry_norm(c) == normalize_url(strip(c.url))

\* the loop of dedupe_citations over citations[k..], with `seen` and `result`
RECURSIVE dedupe_from(_, _, _, _)
RECURSIVE dedupe_entry(_, _, _, _, _)
dedupe_entry(citations, k, seen, result, norm) ==
    IF ~citations[k].is_dict \/ norm = <<>> \/ in_seen(norm, seen)
    THEN dedupe_from(citations, k + 1, seen, result)
    ELSE dedupe_from(citations, k + 1, seen \cup {norm},
                     Append(result, [title |-> strip(citations[k].title),
                                     url |-> norm]))

dedupe_from(citations, k, seen, result) ==
    IF k > Len(citations) THEN result
    ELSE dedupe_entry(citations, k, seen, result, entry_norm(citations[k]))

dedupe_citations(citations) ==
    IF citations = <<>> THEN <<>> ELSE dedupe_from(citations, 1, {}, <<>>)

\* the dict entries of a list, in order
RECURSIVE dicts_of(_)
dicts_of(lst) ==
    IF lst = <<>> THEN <<>>
    ELSE IF Head(lst).is_dict THEN <<Head(lst)>> \o dicts_of(Tail(lst))
    ELSE dicts_of(Tail(lst))

\* the `merged` list of merge_and_dedupe
RECURSIVE merged_of(_)
merged_of(lists) ==
    IF lists = <<>> THEN <<>> ELSE dicts_of(Head(lists)) \o merged_of(Tail(lists))

merge_and_dedupe(lists) == dedupe_citations(merged_of(lists))

DedupeOthers == <<raceVars, routerVars, streamVars, judgeUnitVars, metricsVars,
                  cacheVars, rewardVars, romaVars>>

DedupeInit ==
    /\ RaceIdle
    /\ RouterIdle
    /\ StreamIdle /\ JudgeIdle /\ MetricsIdle /\ CacheIdle /\ RewardIdle /\ RomaIdle
    /\ url = <<>>
    /\ normalized = <<>>
    /\ renormalized = <<>>
    /\ citation_lists \in
         {<<a, b>> : a \in CitationLists(MaxCitations), b \in CitationLists(1)}
    /\ deduped = <<>>

\* dedupe_citations(citation_lists[0])
DedupeCitations ==
    /\ citation_lists # <<>>
    /\ deduped = <<>>
    /\ deduped' = <<[given |-> citation_lists[1],
                     result |-> dedupe_citations(citation_lists[1])]>>
    /\ UNCHANGED <<url, normalized, renormalized, citation_lists>>
    /\ UNCHANGED DedupeOthers

\* merge_and_dedupe(*citation_lists)
MergeAndDedupe ==
    /\ citation_lists # <<>>
    /\ deduped = <<>>
    /\ deduped' = <<[given |-> citation_lists[1] \o citation_lists[2],
                     result |-> merge_and_dedupe(citation_lists)]>>
    /\ UNCHANGED <<url, normalized, renormalized, citation_lists>>
    /\ UNCHANGED DedupeOthers

DedupeNext == DedupeCitations \/ MergeAndDedupe

SpecDedupe == DedupeInit /\ [][DedupeNext]_vars

\* the normalized URL of an input entry, <<>> when it has none
NormOf(c) == IF c.is_dict THEN normalize_url(strip(c.url)) ELSE <<>>

\* the position in `given` of the first entry whose normalized URL is u
FirstOccurrence(given, u) ==
    CHOOSE k \in 1 .. Len(given) :
        /\ NormOf(given[k]) = u
        /\ \A j \in 1 .. (k - 1) : NormOf(given[j]) # u

\* C32: the list returned by dedupe_citations and merge_and_dedupe has no two
\* entries with the same normalized URL, each kept entry is the first input
\* entry with its normalized URL and carries that entry's title, and the kept
\* entries are in the order of those first occurrences.
C32_FirstOccurrencePerNormalizedUrl ==
    deduped # <<>> =>
        LET given == deduped[1].given
            result == deduped[1].result
        IN  /\ \A a, b \in 1 .. Len(result) :
                   a # b => result[a].url # result[b].url
            /\ {result[k].url : k \in 1 .. Len(result)}
                   = {NormOf(given[k]) : k \in 1 .. Len(given)} \ {<<>>}
            /\ \A k \in 1 .. Len(result) :
                   result[k].title = strip(given[FirstOccurrence(given, result[k].url)].title)
            /\ \A a, b \in 1 .. Len(result) :
                   a < b => FirstOccurrence(given, result[a].url)
                               < FirstOccurrence(given, result[b].url)

\* Two lists that share a normalized URL under different titles were merged.
C32_Witness ==
    /\ deduped # <<>>
    /\ Len(deduped[1].given) = MaxCitations + 1
    /\ Len(deduped[1].result) = 2
    /\ \E a, b \in 1 .. Len(deduped[1].given) :
           /\ a <= MaxCitations /\ b > MaxCitations
           /\ NormOf(deduped[1].given[a]) = NormOf(deduped[1].given[b])
           /\ NormOf(deduped[1].given[a]) # <<>>
           /\ deduped[1].given[a].title # deduped[1].given[b].title

\* What C31 leaves open here: the URLs of a returned list need not be fixed
\* points of normalize_url, so two of them can normalize to the same URL.
ReturnedUrlsNormalizeApart ==
    deduped # <<>> =>
        \A a, b \in 1 .. Len(deduped[1].result) :
            a # b => normalize_url(deduped[1].result[a].url)
                       # normalize_url(deduped[1].result[b].url)

(***************************************************************************)
(* runtime/reward.py: QualityLatencyCostPolicy.compute_rewards, called     *)
(* directly and as race_with_judge_and_stream calls it (race/race.py       *)
(* 388-409).  Numbers are exact rationals; candidate i of the code is      *)
(* position i + 1 of the sequences.                                        *)
(***************************************************************************)
MaxVerdictScores == 2

RMin(p, q) == IF RLess(q, p) THEN q ELSE p

\* verdict.scores of an accepted verdict: overall in [0, 1], index >= 0
VerdictScoreEntries == [index : 0 .. 1, overall : {Rat(3, 10), Rat(9, 10)}]

RECURSIVE VerdictScoreLists(_)
VerdictScoreLists(n) ==
    IF n = 0 THEN {<<>>}
    ELSE VerdictScoreLists(n - 1)
         \cup {Append(l, e) : l \in {m \in VerdictScoreLists(n - 1) : Len(m) = n - 1},
                              e \in VerdictScoreEntries}

\* judge_overall of a direct call: any floats
JudgeOveralls == {<<>>, <<Rat(3, 2), Rat(1, 2)>>, <<Rat(0 - 1, 2)>>}

RewardArgs ==
    [models : {<<"a", "b">>, <<"b", "b">>},
     scores : VerdictScoreLists(MaxVerdictScores),
     judge_overall : JudgeOveralls,
     weights : {<<Rat(4, 5), Rat(1, 5), RZero>>, <<Rat(1, 2), Rat(1, 2), ROne>>,
                <<RZero, RZero, RZero>>},
     p95 : {[a |-> None, b |-> None], [a |-> 15, b |-> 90]},
     preview_tokens : {<<1, 3>>, <<0>>},
     min_preview_tokens : {2},
     failed_full_indices : SUBSET {0, 1},
     fallback_penalty : {Rat(0 - 1, 1), Rat(1, 20), Rat(2, 1)}]

\* QualityLatencyCostWeights.normalized(); total = max(1e-9, sum): a zero
\* sum leaves the three weights 0
normalized_weights(w) ==
    LET total == RAdd(w[1], RAdd(w[2], w[3]))
    IN  IF total = RZero THEN w
        ELSE <<RDiv(w[1], total), RDiv(w[2], total), RDiv(w[3], total)>>

\* min(1.0, max(0.0, r))
clamp(r) == RMax(RZero, RMin(ROne, r))

\* a blend that is not clamped
unclamped(r) == r

\* max(0.0, min(1.0, r)) as compute_rewards applies it
clamp_reward(r) == clamp(r)

\* _cost_norm with no price for the model
_cost_norm(tokens, min_tokens) ==
    RSub(ROne, clamp(Rat(tokens, Max(1, min_tokens))))

\* _latency_term: p95 in tenths of a second, a query far shorter than
\* length_threshold (base window 3 s)
_latency_term(p95_tenths) ==
    IF p95_tenths = None \/ p95_tenths <= 0 THEN Rat(1, 2)
    ELSE RSub(ROne, clamp(Rat(p95_tenths, 30)))

\* quality = jw[i] if i < len(jw) else 0.0
quality_term(jw, k) == IF k <= Len(jw) THEN jw[k] ELSE RZero

\* the weighted sum before it is clamped
blend(args, jw, k) ==
    LET w == normalized_weights(args.weights)
        toks == args.preview_tokens
        tokens == IF k <= Len(toks) THEN toks[k] ELSE 0
    IN  RAdd(RMul(w[1], quality_term(jw, k)),
             RAdd(RMul(w[2], _latency_term(args.p95[args.models[k]])),
                  RMul(w[3], _cost_norm(tokens, args.min_preview_tokens))))

\* self.fallback_penalty = max(0.0, float(fallback_penalty))
penalty_of(args) == RMax(RZero, args.fallback_penalty)

\* r of loop iteration i = k - 1
reward_of(args, jw, k) ==
    LET r == clamp_reward(blend(args, jw, k))
    IN  IF (k - 1) \in args.failed_full_indices
        THEN RMax(RZero, RSub(r, penalty_of(args)))
        ELSE r

\* rewards[model] = r: the last candidate of a model sets its entry
policy_compute_rewards(args, jw) ==
    LET n == Len(args.models)
        last(model) == CHOOSE k \in 1 .. n :
                           /\ args.models[k] = model
                           /\ \A j \in (k + 1) .. n : args.models[j] # model
    IN  [judge_overall |-> jw,
         quality |-> [k \in 1 .. n |-> quality_term(jw, k)],
         by_index |-> [k \in 1 .. n |-> reward_of(args, jw, k)],
         by_model |-> [model \in Range(args.models) |->
                          reward_of(args, jw, last(model))]]

\* judge_overall = [float(s.overall) for s in verdict.scores]
overall_list(score_list) == [k \in 1 .. Len(score_list) |-> score_list[k].overall]

RewardOthers == <<raceVars, routerVars, streamVars, judgeUnitVars, metricsVars,
                  cacheVars, citVars, romaVars>>

RewardInit ==
    /\ RaceIdle
    /\ RouterIdle
    /\ StreamIdle /\ JudgeIdle /\ MetricsIdle /\ CacheIdle /\ CitIdle /\ RomaIdle
    /\ reward_args \in RewardArgs
    /\ rewards = <<>>

\* policy.compute_rewards(...) of the run, from the verdict's scores
RaceComputeRewards ==
    /\ rewards = <<>>
    /\ rewards' = <<[from_verdict |-> TRUE] @@
                    policy_compute_rewards(reward_args, overall_list(reward_args.scores))>>
    /\ UNCHANGED reward_args
    /\ UNCHANGED RewardOthers

\* compute_rewards called with a judge_overall of the caller's own
ComputeRewards ==
    /\ rewards = <<>>
    /\ rewards' = <<[from_verdict |-> FALSE] @@
                    policy_compute_rewards(reward_args, reward_args.judge_overall)>>
    /\ UNCHANGED reward_args
    /\ UNCHANGED RewardOthers

RewardNext == RaceComputeRewards \/ ComputeRewards

SpecReward == RewardInit /\ [][RewardNext]_vars

\* the overall scores the verdict holds for index i
OverallsOfIndex(score_list, i) ==
    {score_list[k].overall : k \in {j \in 1 .. Len(score_list) : score_list[j].index = i}}

\* C33: in the run's call the quality term of candidate i is the overall
\* score the judge gave to index i, and 0 when the verdict has no score for
\* index i, also when the scores are fewer than N or not in index order.
C33_QualityIsScoreOfIndex ==
    (rewards # <<>> /\ rewards[1].from_verdict) =>
        \A k \in 1 .. Len(reward_args.models) :
            LET given == OverallsOfIndex(reward_args.scores, k - 1)
            IN  IF given = {} THEN rewards[1].quality[k] = RZero
                ELSE rewards[1].quality[k] \in given

\* What the code does instead: the quality term of candidate i is the
\* overall of the i-th entry of verdict.scores, whatever its index.
QualityIsPositional ==
    (rewards # <<>> /\ rewards[1].from_verdict) =>
        \A k \in 1 .. Len(reward_args.models) :
            rewards[1].quality[k]
                = IF k <= Len(reward_args.scores) THEN reward_args.scores[k].overall
                  ELSE RZero

InUnitInterval(r) == RLeq(RZero, r) /\ RLeq(r, ROne)

\* C34: every reward compute_rewards returns is in [0, 1]; a candidate in
\* failed_full_indices gets the clamped blend minus the penalty, once,
\* floored at 0, and any other candidate gets the clamped blend itself.
C34_RewardsClampedPenaltyOnce ==
    rewards # <<>> =>
        LET res == rewards[1]
            n == Len(reward_args.models)
        IN  /\ \A model \in DOMAIN res.by_model : InUnitInterval(res.by_model[model])
            /\ \A k \in 1 .. n :
                  LET b == blend(reward_args, res.judge_overall, k)
                      clamped == IF RLess(b, RZero) THEN RZero
                                 ELSE IF RLess(ROne, b) THEN ROne ELSE b
                      lowered == RSub(clamped, penalty_of(reward_args))
                  IN  /\ InUnitInterval(res.by_index[k])
                      /\ (k - 1) \notin reward_args.failed_full_indices
                            => res.by_index[k] = clamped
                      /\ (k - 1) \in reward_args.failed_full_indices
                            => res.by_index[k]
                                 = IF RLess(lowered, RZero) THEN RZero ELSE lowered

\* A blend above 1 was clamped for a candidate that did not fail, next to a
\* failed candidate whose reward stayed positive after the penalty.
C34_Witness ==
    /\ rewards # <<>>
    /\ RLess(ROne, blend(reward_args, rewards[1].judge_overall, 1))
    /\ rewards[1].by_index[1] = ROne
    /\ reward_args.failed_full_indices = {1}
    /\ reward_args.fallback_penalty = Rat(1, 20)
    /\ RLess(RZero, rewards[1].by_index[2])
    /\ RLess(rewards[1].by_index[2], clamp(blend(reward_args, rewards[1].judge_overall, 2)))

\* ---- the @retry wrapper of stream_response
\* the text of the first k events of the stream
RECURSIVE TextUpTo(_)
TextUpTo(k) == IF k = 0 THEN <<>> ELSE TextUpTo(k - 1) \o stream_events[k]

\* C35: stream_response makes at most 5 attempts; a return carries the
\* token count and the text of the attempt that returned, nothing of the
\* failed attempts before it; the exception reaches the caller only from
\* the fifth attempt.
C35_FiveAttemptsFreshLocals ==
    /\ stream_pc # "idle" => stream_attempt \in 1 .. 5
    /\ stream_pc = "raised" => stream_attempt = 5
    /\ stream_pc = "returned" =>
          /\ stream_ret[1].tokens = WordsUpTo(events_read)
          /\ stream_ret[1].text =
                 IF capture_text THEN <<strip(TextUpTo(events_read))>> ELSE <<>>

\* a call that returned text on its third attempt, after two attempts that
\* had counted tokens before they failed
C35_Witness ==
    /\ stream_pc = "returned"
    /\ stream_attempt = 3
    /\ capture_text
    /\ stream_ret[1].tokens = 2
    /\ stop_after_tokens = 2

\* the fifth attempt failed and the exception reached the caller
FifthFailurePropagates ==
    [][(stream_pc = "streaming" /\ stream_attempt = 5 /\ stream_pc' # "returned"
          /\ events_read' # events_read + 1)
       => stream_pc' = "raised"]_vars

(***************************************************************************)
(* hsw/graph/roma_graph.py: _execute_subtasks_parallel.  The subtask at    *)
(* position p of the input has id p and a set of dependency ids; id 0 is   *)
(* the id of no subtask.  The NodeResult of the subtask at position p is   *)
(* written p.                                                              *)
(***************************************************************************)
MaxSubtasks == 3

\* task.get("dependencies", []) of a subtask in a list of n
DependencyLists(n) == {{}} \cup {{j} : j \in 0 .. n} \cup {{1, 2}}

SubtaskLists ==
    UNION {[1 .. n -> DependencyLists(n)] : n \in 0 .. MaxSubtasks}

\* ready_tasks: the remaining tasks with no dependencies or with all of
\* them completed, in list order
ready_tasks ==
    LET ready(p) == subtasks[p] = {} \/ subtasks[p] \subseteq completed_task_ids
    IN  SelectSeq(remaining_tasks, ready)

\* one call of _execute_single_subtask for each task of the list
executed(tasks) ==
    [p \in DOMAIN executions |->
        executions[p] + Cardinality({k \in 1 .. Len(tasks) : tasks[k] = p})]

\* _execute_subtasks_sequential(tasks, state): the list it returns
_execute_subtasks_sequential(tasks) == tasks

RomaOthers == <<raceVars, routerVars, streamVars, judgeUnitVars, metricsVars,
                cacheVars, citVars, rewardVars>>

RomaInit ==
    /\ RaceIdle
    /\ RouterIdle
    /\ StreamIdle /\ JudgeIdle /\ MetricsIdle /\ CacheIdle /\ CitIdle /\ RewardIdle
    /\ subtasks \in SubtaskLists
    /\ remaining_tasks = [p \in 1 .. Len(subtasks) |-> p]
    /\ completed_task_ids = {}
    /\ roma_results = <<>>
    /\ returned_results = <<>>
    /\ executions = [p \in 1 .. Len(subtasks) |-> 0]
    /\ roma_pc = "loop"

\* the end of a loop iteration: the ready tasks are completed and removed
Complete(tasks) ==
    LET still(p) == \A k \in 1 .. Len(tasks) : tasks[k] # p
    IN  /\ completed_task_ids' = completed_task_ids \cup Range(tasks)
        /\ remaining_tasks' = SelectSeq(remaining_tasks, still)

\* Several tasks are ready: asyncio.gather runs them and results.extend
\* appends their results in the order of ready_tasks.
ExecuteParallel ==
    /\ roma_pc = "loop"
    /\ Len(ready_tasks) > 1
    /\ executions' = executed(ready_tasks)
    /\ roma_results' = roma_results \o ready_tasks
    /\ Complete(ready_tasks)
    /\ UNCHANGED <<subtasks, returned_results, roma_pc>>
    /\ UNCHANGED RomaOthers

\* One task is ready: it is run and its result appended.
ExecuteSingle ==
    /\ roma_pc = "loop"
    /\ Len(ready_tasks) = 1
    /\ executions' = executed(ready_tasks)
    /\ roma_results' = Append(roma_results, ready_tasks[1])
    /\ Complete(ready_tasks)
    /\ UNCHANGED <<subtasks, returned_results, roma_pc>>
    /\ UNCHANGED RomaOthers

\* Tasks remain and none is ready:
\* return await _execute_subtasks_sequential(remaining_tasks, state)
SequentialFallback ==
    /\ roma_pc = "loop"
    /\ remaining_tasks # <<>>
    /\ ready_tasks = <<>>
    /\ executions' = executed(remaining_tasks)
    /\ returned_results' = <<_execute_subtasks_sequential(remaining_tasks)>>
    /\ roma_pc' = "returned"
    /\ UNCHANGED <<subtasks, remaining_tasks, completed_task_ids, roma_results>>
    /\ UNCHANGED RomaOthers

\* No task remains: return results
ReturnResults ==
    /\ roma_pc = "loop"
    /\ remaining_tasks = <<>>
    /\ returned_results' = <<roma_results>>
    /\ roma_pc' = "returned"
    /\ UNCHANGED <<subtasks, remaining_tasks, completed_task_ids, roma_results,
                   executions>>
    /\ UNCHANGED RomaOthers

RomaNext == ExecuteParallel \/ ExecuteSingle \/ SequentialFallback \/ ReturnResults

SpecRoma == RomaInit /\ [][RomaNext]_vars

\* C40: _execute_subtasks_parallel returns exactly one result per input
\* subtask and executes each subtask exactly once, also when it falls back
\* to sequential execution after some subtasks have run.
C40_OneResultPerSubtask ==
    roma_pc = "returned" =>
        /\ Len(returned_results[1]) = Len(subtasks)
        /\ \A p \in 1 .. Len(subtasks) :
              /\ Cardinality({k \in 1 .. Len(returned_results[1]) :
                                  returned_results[1][k] = p}) = 1
              /\ executions[p] = 1

\* The parts of C40 that hold: every subtask is executed exactly once, no
\* result is returned twice, and a call that never falls back returns one
\* result per subtask.
EachSubtaskExecutedOnce ==
    roma_pc = "returned" =>
        /\ \A p \in 1 .. Len(subtasks) :
              /\ executions[p] = 1
              /\ Cardinality({k \in 1 .. Len(returned_results[1]) :
                                  returned_results[1][k] = p}) <= 1
        /\ remaining_tasks = <<>> => Len(returned_results[1]) = Len(subtasks)
        /\ Len(returned_results[1]) = Len(remaining_tasks) \/ remaining_tasks = <<>>

====
